---- MODULE Spec2Model ----
(***************************************************************************)
(* A model of bazel-lsp: its target index (src/src/target_trie.rs), the    *)
(* indexer and the completion handler with its trigger detection           *)
(* (src/src/server.rs), and the deps formatter (src/src/parser.rs).        *)
(*                                                                         *)
(* Strings are sequences of one-character strings: "a/b:c" is written      *)
(* <<"a", "/", "b", ":", "c">>.  A trie node is named by the characters on *)
(* the path from the root to it, so the root is <<>> and the children of   *)
(* node k are the nodes k \o <<c>>; target_trie maps every existing node   *)
(* to its fields.                                                          *)
(***************************************************************************)
EXTENDS Integers, Sequences, FiniteSets, TLC

VARIABLES
    target_trie,   \* TargetTrie: node (its path from the root) -> TrieNode
    inserted,      \* history: one record per insert_target call, in call order
    prefix,        \* argument of the last starts_with call
    result,        \* what that call returned: the nodes whose rule groups it references
    missed,        \* whether that call returned early because a child was missing
    panicked,      \* whether some call panicked (index out of bounds)
    op,            \* "idle", or "starts_with" while the caller holds the result of a search
    line_up_to_cursor,  \* argument of find_trigger_position
    trigger_result,     \* what find_trigger_position returned, Pending before the call
    build_files,        \* the file system: build file -> whether it can be read and parsed
    server_state,       \* "uninitialized" until initialize has returned
    workspace_folders,  \* Backend::workspace_folders
    documents,          \* Backend::documents: file path -> text
    request,            \* the last completion request, Pending before the first
    response,           \* what that request returned, Pending when it did not return
    source,             \* argument of the first sort_deps_in_text call
    formatted,          \* the texts that successive sort_deps_in_text calls returned
    rule_calls,         \* argument of extract_targets: the calls of the source
    extracted,          \* what extract_targets returned, Pending before the call
    lenses,             \* what the last code_lens request returned, Pending when none is awaited
    tasks,              \* the handlers in flight: task -> what it runs and where it stands
    locks,              \* the RwLocks of Backend: holders and queue of each
    committed           \* history: the texts that did_open and did_change stored

serverVars == <<build_files, server_state, workspace_folders, documents, request, response>>

formatVars == <<source, formatted>>

extractVars == <<rule_calls, extracted>>

lensVars == <<lenses>>

sessionVars == <<tasks, locks, committed>>

vars == <<target_trie, inserted, prefix, result, missed, panicked, op,
          line_up_to_cursor, trigger_result, serverVars, formatVars, extractVars, lensVars, sessionVars>>

----------------------------------------------------------------------------
(* Bounds of the model. *)

\* longest path / prefix handed to the trie
MaxPathLen == 3
\* insert_target calls are enabled while the sum of (length of path + 1) over
\* all calls stays within this budget
MaxInsertCost == 4

Alphabet == {"a", "/", ":"}
RuleNames == {"r1", "r2"}

RECURSIVE StringsUpTo(_)
StringsUpTo(n) ==
    IF n = 0 THEN {<<>>}
    ELSE LET shorter == StringsUpTo(n - 1)
         IN  shorter \cup {Append(s, c) : s \in {x \in shorter : Len(x) = n - 1}, c \in Alphabet}

Paths == StringsUpTo(MaxPathLen)

----------------------------------------------------------------------------
(* str helpers, as the Rust standard library computes them. *)

Contains(s, c) == \E i \in 1..Len(s) : s[i] = c

Find(s, c) == IF Contains(s, c) THEN CHOOSE i \in 1..Len(s) : s[i] = c /\ \A j \in 1..(i - 1) : s[j] # c
              ELSE 0

\* str::split(c): the pieces between the occurrences of c; always at least one piece
RECURSIVE Split(_, _)
Split(s, c) ==
    IF ~Contains(s, c) THEN <<s>>
    ELSE LET i == Find(s, c)
         IN  <<SubSeq(s, 1, i - 1)>> \o Split(SubSeq(s, i + 1, Len(s)), c)

IsPrefixOf(p, s) == Len(p) <= Len(s) /\ SubSeq(s, 1, Len(p)) = p

LF == "\n"
CR == "\r"

\* str::lines(): the pieces between the line feeds, without a last empty
\* piece, each without the carriage return that may end it
StrLines(text) ==
    LET pieces == Split(text, LF)
        kept == IF pieces[Len(pieces)] = <<>> THEN SubSeq(pieces, 1, Len(pieces) - 1)
                ELSE pieces
    IN  [i \in 1..Len(kept) |->
            IF kept[i] # <<>> /\ kept[i][Len(kept[i])] = CR
            THEN SubSeq(kept[i], 1, Len(kept[i]) - 1)
            ELSE kept[i]]

\* the text whose lines are lines, each ended by the line ending eol
RECURSIVE JoinLines(_, _)
JoinLines(lines, eol) ==
    IF lines = <<>> THEN <<>>
    ELSE Head(lines) \o eol \o JoinLines(Tail(lines), eol)

----------------------------------------------------------------------------
(* TrieNode and TargetTrie. *)

RuleInfo(name) == [name |-> name]

TrieNodeNew(c) ==
    [char |-> c, is_end |-> FALSE, is_package_end |-> FALSE, rules |-> <<>>]

TargetTrieNew == (<<>> :> TrieNodeNew("NUL"))

\* node.children.values()
Children(t, node) == {k \in DOMAIN t : Len(k) = Len(node) + 1 /\ IsPrefixOf(node, k)}

\* current.children.entry(c).or_insert_with(|| TrieNode::new(c)), for each c of chars
RECURSIVE EntryOrInsert(_, _, _)
EntryOrInsert(t, current, chars) ==
    IF chars = <<>> THEN [trie |-> t, current |-> current]
    ELSE LET child == Append(current, Head(chars))
             t2 == IF child \in DOMAIN t THEN t ELSE t @@ (child :> TrieNodeNew(Head(chars)))
         IN  EntryOrInsert(t2, child, Tail(chars))

----------------------------------------------------------------------------
(* TargetTrie::insert_target *)

\* a variant of InsertSplit that indexes the pieces without asking whether the
\* path has a ':' at all
InsertSplitUnguarded(path) ==
    LET parts == Split(path, ":")
    IN  IF Len(parts) < 2
        THEN [panic |-> TRUE, package_path |-> <<>>, rule_name |-> <<>>]
        ELSE [panic |-> FALSE, package_path |-> parts[1], rule_name |-> parts[2]]

\* a variant of InsertSplit that takes the last piece as the rule name
InsertSplitLastPiece(path) ==
    IF Contains(path, ":")
    THEN LET parts == Split(path, ":")
         IN  [panic |-> FALSE, package_path |-> parts[1], rule_name |-> parts[Len(parts)]]
    ELSE [panic |-> FALSE, package_path |-> <<>>, rule_name |-> path]

\* let (package_path, rule_name) = if path.contains(':') { (parts[0], parts[1]) }
\* else { ("", path) };  indexing parts beyond its length panics
InsertSplit(path) ==
    IF Contains(path, ":")
    THEN LET parts == Split(path, ":")
         IN  IF Len(parts) < 2
             THEN [panic |-> TRUE, package_path |-> <<>>, rule_name |-> <<>>]
             ELSE [panic |-> FALSE, package_path |-> parts[1], rule_name |-> parts[2]]
    ELSE [panic |-> FALSE, package_path |-> <<>>, rule_name |-> path]

\* for (i, part) in parts.iter().enumerate(): descend along the characters of
\* part, then mark the node reached as a package end unless part is the last
RECURSIVE InsertPackageParts(_, _, _, _)
InsertPackageParts(t, current, parts, i) ==
    IF i > Len(parts) THEN [trie |-> t, current |-> current]
    ELSE LET w == EntryOrInsert(t, current, parts[i])
             t2 == IF i - 1 < Len(parts) - 1
                   THEN [w.trie EXCEPT ![w.current].is_package_end = TRUE]
                   ELSE w.trie
         IN  InsertPackageParts(t2, w.current, parts, i + 1)

\* a variant of MarkEnd that pushes the rule only when the group does not hold
\* an equal one yet
MarkEndDedup(t, current, rule) ==
    [t EXCEPT ![current].is_end = TRUE,
              ![current].rules = IF \E j \in 1..Len(@) : @[j] = rule THEN @ ELSE Append(@, rule)]

\* a variant of MarkEnd that replaces the group by the new rule
MarkEndOverwrite(t, current, rule) ==
    [t EXCEPT ![current].is_end = TRUE, ![current].rules = <<rule>>]

\* current.is_end = true; current.rules.push(rule);
MarkEnd(t, current, rule) ==
    [t EXCEPT ![current].is_end = TRUE, ![current].rules = Append(@, rule)]

InsertTarget(t, path, rule) ==
    LET sp == InsertSplit(path)
    IN  IF sp.panic
        THEN [panic |-> TRUE, trie |-> t, node |-> <<>>,
              package_path |-> <<>>, rule_name |-> <<>>]
        ELSE LET a == IF sp.package_path # <<>>
                      THEN InsertPackageParts(t, <<>>, Split(sp.package_path, "/"), 1)
                      ELSE [trie |-> t, current |-> <<>>]
                 b == EntryOrInsert(a.trie, a.current, sp.rule_name)
             IN  [panic |-> FALSE, trie |-> MarkEnd(b.trie, b.current, rule),
                  node |-> b.current,
                  package_path |-> sp.package_path, rule_name |-> sp.rule_name]

----------------------------------------------------------------------------
(* TargetTrie::starts_with *)

\* let (package_path, rule_prefix) = if prefix.contains(':') { (parts[0], parts[1]) }
\* else { (prefix, "") };
StartsWithSplit(p) ==
    IF Contains(p, ":")
    THEN LET parts == Split(p, ":")
         IN  IF Len(parts) < 2
             THEN [panic |-> TRUE, package_path |-> <<>>, rule_prefix |-> <<>>]
             ELSE [panic |-> FALSE, package_path |-> parts[1], rule_prefix |-> parts[2]]
    ELSE [panic |-> FALSE, package_path |-> p, rule_prefix |-> <<>>]

\* for c in chars: match current.children.get(&c) { Some(node) => current = node,
\* None => return result }
RECURSIVE Descend(_, _, _)
Descend(t, current, chars) ==
    IF chars = <<>> THEN [found |-> TRUE, current |-> current]
    ELSE LET child == Append(current, Head(chars))
         IN  IF child \in DOMAIN t THEN Descend(t, child, Tail(chars))
             ELSE [found |-> FALSE, current |-> current]

\* for part in parts.iter() { for c in part.chars() { ... } }
RECURSIVE DescendParts(_, _, _, _)
DescendParts(t, current, parts, i) ==
    IF i > Len(parts) THEN [found |-> TRUE, current |-> current]
    ELSE LET w == Descend(t, current, parts[i])
         IN  IF w.found THEN DescendParts(t, w.current, parts, i + 1) ELSE w

\* a variant of Traverse that does not descend below a node that is an end
RECURSIVE TraverseStopAtEnd(_, _, _)
TraverseStopAtEnd(t, stack, acc) ==
    IF stack = {} THEN acc
    ELSE LET node == CHOOSE n \in stack : TRUE
             isEnd == t[node].is_end /\ t[node].rules # <<>>
         IN  TraverseStopAtEnd(t, (stack \ {node}) \cup (IF isEnd THEN {} ELSE Children(t, node)),
                               IF isEnd THEN acc \cup {node} ELSE acc)

\* while let Some(node) = stack.pop(): push &node.rules when the node is an end
\* with rules, then push the children.  The groups come out in the iteration
\* order of the HashMaps, which is unspecified: the result is kept as the set of
\* the nodes whose groups it references.
RECURSIVE Traverse(_, _, _)
Traverse(t, stack, acc) ==
    IF stack = {} THEN acc
    ELSE LET node == CHOOSE n \in stack : TRUE
             acc2 == IF t[node].is_end /\ t[node].rules # <<>> THEN acc \cup {node} ELSE acc
         IN  Traverse(t, (stack \ {node}) \cup Children(t, node), acc2)

StartsWith(t, p) ==
    IF p = <<>>
    THEN [panic |-> FALSE, missed |-> FALSE, hits |-> Traverse(t, {<<>>}, {})]
    ELSE LET sp == StartsWithSplit(p)
         IN  IF sp.panic THEN [panic |-> TRUE, missed |-> FALSE, hits |-> {}]
             ELSE LET a == DescendParts(t, <<>>, Split(sp.package_path, "/"), 1)
                      b == IF a.found /\ sp.rule_prefix # <<>>
                           THEN Descend(t, a.current, sp.rule_prefix)
                           ELSE a
                  IN  IF ~b.found THEN [panic |-> FALSE, missed |-> TRUE, hits |-> {}]
                      ELSE [panic |-> FALSE, missed |-> FALSE,
                            hits |-> Traverse(t, {b.current}, {})]

----------------------------------------------------------------------------
(* The trie under arbitrary calls. *)

RECURSIVE Cost(_)
Cost(h) == IF h = <<>> THEN 0 ELSE Len(Head(h).path) + 1 + Cost(Tail(h))

Pending == [tag |-> "pending"]

\* A path of the file system is the sequence of its components.  WorkspaceDir
\* and SecondWorkspaceDir hold a WORKSPACE file, OtherDir and OutsideDir hold
\* none.
WorkspaceDir == <<"w">>
SecondWorkspaceDir == <<"s">>
OtherDir == <<"v">>
OutsideDir == <<"u">>

\* the files named BUILD below WorkspaceDir: one at its root, one in a/b
RootBuildFile == <<"w", "BUILD">>
PackageBuildFile == <<"w", "a", "b", "BUILD">>
BuildFiles == {RootBuildFile, PackageBuildFile}

\* the documents the editor opens: one below WorkspaceDir, one outside
DocumentPaths == {PackageBuildFile, <<"u", "BUILD">>}

\* documents.get(uri) of a uri that was never opened
NoDocument == [open |-> FALSE, text |-> <<>>]

InitTrie ==
    /\ target_trie = TargetTrieNew
    /\ inserted = <<>>
    /\ prefix = <<>>
    /\ result = {}
    /\ missed = FALSE
    /\ panicked = FALSE
    /\ op = "idle"

\* tokio::sync::RwLock::new: no holder, nobody waits
FreeLock == [mode |-> "free", holders |-> {}, queue |-> <<>>]

\* no handler runs, and the document store never held a text but the empty one
\* that documents.get(..).unwrap_or_default() gives
InitSessionVars ==
    /\ tasks = <<>>
    /\ locks = [documents |-> FreeLock, workspace_folders |-> FreeLock,
                target_trie |-> FreeLock]
    /\ committed = {<<>>}

\* Backend::new: no document, no workspace folder; nothing was formatted yet
InitBackend ==
    /\ server_state = "uninitialized"
    /\ workspace_folders = <<>>
    /\ documents = [path \in DocumentPaths |-> NoDocument]
    /\ request = Pending
    /\ response = Pending
    /\ source = <<>>
    /\ formatted = <<>>
    /\ rule_calls = <<>>
    /\ extracted = Pending
    /\ lenses = Pending
    /\ InitSessionVars

Init ==
    /\ InitTrie
    /\ line_up_to_cursor = <<>>
    /\ trigger_result = Pending
    /\ build_files = [file \in BuildFiles |-> "ok"]
    /\ InitBackend

\* trie.insert_target(path, rule): needs &mut self, so no result of starts_with
\* (which borrows the trie) is alive
Insert(path, rule) ==
    /\ ~panicked
    /\ op = "idle"
    /\ LET r == InsertTarget(target_trie, path, rule)
       IN  /\ target_trie' = r.trie
           /\ panicked' = r.panic
           /\ inserted' = IF r.panic THEN inserted
                          ELSE Append(inserted, [path |-> path, rule |-> rule, node |-> r.node,
                                                 package_path |-> r.package_path,
                                                 rule_name |-> r.rule_name])
    /\ prefix' = <<>>
    /\ result' = {}
    /\ missed' = FALSE
    /\ op' = "idle"
    /\ UNCHANGED <<line_up_to_cursor, trigger_result, serverVars, formatVars, extractVars, lensVars, sessionVars>>

\* let results = trie.starts_with(p);
Search(p) ==
    /\ ~panicked
    /\ op = "idle"
    /\ LET r == StartsWith(target_trie, p)
       IN  /\ result' = r.hits
           /\ missed' = r.missed
           /\ panicked' = r.panic
    /\ prefix' = p
    /\ op' = "starts_with"
    /\ UNCHANGED <<target_trie, inserted, line_up_to_cursor, trigger_result, serverVars, formatVars, extractVars, lensVars, sessionVars>>

\* the caller drops the result, which ends the borrow of the trie
Release ==
    /\ op = "starts_with"
    /\ prefix' = <<>>
    /\ result' = {}
    /\ missed' = FALSE
    /\ op' = "idle"
    /\ UNCHANGED <<target_trie, inserted, panicked, line_up_to_cursor, trigger_result,
                   serverVars, formatVars, extractVars, lensVars, sessionVars>>

\* any path and any rule, within the budget
InsertAny ==
    /\ op = "idle"
    /\ \E path \in {p \in Paths : Cost(inserted) + Len(p) + 1 <= MaxInsertCost},
          name \in RuleNames :
           Insert(path, RuleInfo(name))

\* any prefix
SearchAny ==
    /\ op = "idle"
    /\ \E p \in Paths : Search(p)

Next ==
    \/ InsertAny
    \/ SearchAny
    \/ Release

Spec == Init /\ [][Next]_vars

----------------------------------------------------------------------------
(* The trie filled with the labels of a workspace: the five targets that
   setup_server of the completion tests inserts, and a target bin of package a.
   Every label is inserted at most once, in any order; the searches are the
   prefixes the completion tests type. *)

\* RuleInfo::new(name, full_build_path)
RuleInfoNew(name, full_build_path) == [name |-> name, full_build_path |-> full_build_path]

SetupTargets ==
    { [path |-> <<"/", "/", "a", ":", "i", "n", "s", "i", "d", "e", "_", "a">>,
       package |-> <<"a">>, rule |-> RuleInfoNew("inside_a", "//a:inside_a")],
      [path |-> <<"/", "/", "a", ":", "i", "n", "s", "i", "d", "e", "_", "b">>,
       package |-> <<"a">>, rule |-> RuleInfoNew("inside_b", "//a:inside_b")],
      [path |-> <<"/", "/", "a", "/", "b", ":", "t", "a", "r", "g", "e", "t", "1">>,
       package |-> <<"a", "/", "b">>, rule |-> RuleInfoNew("target1", "//a/b:target1")],
      [path |-> <<"/", "/", "a", "/", "c", ":", "t", "a", "r", "g", "e", "t", "2">>,
       package |-> <<"a", "/", "c">>, rule |-> RuleInfoNew("target2", "//a/c:target2")],
      [path |-> <<"/", "/", "a", "/", "b", ":", "t", "a", "r", "g", "e", "t", "2">>,
       package |-> <<"a", "/", "b">>, rule |-> RuleInfoNew("target2", "//a/b:target2")] }

OtherTargets ==
    { [path |-> <<"/", "/", "a", ":", "b", "i", "n">>,
       package |-> <<"a">>, rule |-> RuleInfoNew("bin", "//a:bin")] }

Labels == SetupTargets \cup OtherTargets

TypedPrefixes == { <<>>, <<"a", ":">>, <<"a", "/", "b">> }

InsertLabel(l) ==
    /\ \A i \in 1..Len(inserted) : inserted[i].path # l.path
    /\ Insert(l.path, l.rule)

InsertSomeLabel ==
    /\ op = "idle"
    /\ \E l \in Labels : InsertLabel(l)

SearchTyped ==
    /\ op = "idle"
    /\ \E p \in TypedPrefixes : Search(p)

NextLabels ==
    \/ InsertSomeLabel
    \/ SearchTyped
    \/ Release

SpecLabels == Init /\ [][NextLabels]_vars

----------------------------------------------------------------------------
(* find_trigger_position, applied to every short line. *)

\* longest line handed to find_trigger_position
MaxLineLen == 5

Quote == "\""
Backslash == "\\"
LineAlphabet == {Quote, "/", ":", "f", Backslash}

RECURSIVE LinesUpTo(_)
LinesUpTo(n) ==
    IF n = 0 THEN {<<>>}
    ELSE LET shorter == LinesUpTo(n - 1)
         IN  shorter \cup {Append(s, c) : s \in {x \in shorter : Len(x) = n - 1},
                                          c \in LineAlphabet}

Lines == LinesUpTo(MaxLineLen)

\* str::rfind(c): the 1-based position of the last c in s, 0 for None
RECURSIVE RFind(_, _, _)
RFind(s, c, i) ==
    IF i = 0 THEN 0
    ELSE IF s[i] = c THEN i
    ELSE RFind(s, c, i - 1)

None == [tag |-> "none"]

\* TriggerResult { trigger_type, trigger_pos, text_after_trigger }
TriggerResult(trigger_type, trigger_pos, text_after_trigger) ==
    [tag |-> "some", trigger_type |-> trigger_type, trigger_pos |-> trigger_pos,
     text_after_trigger |-> text_after_trigger]

\* the body of find_trigger_position with the quote found at 1-based position
\* quote_pos (0: no quote); the 0-based index quote_pos + 1 of the source is
\* the 1-based position of the quote
TriggerAfterQuote(line, quote_pos) ==
    IF quote_pos = 0 THEN None
    ELSE LET after_quote == SubSeq(line, quote_pos + 1, Len(line))
         IN  IF Len(after_quote) >= 2 /\ after_quote[1] = "/" /\ after_quote[2] = "/"
             THEN TriggerResult("DoubleSlash", quote_pos, SubSeq(after_quote, 3, Len(after_quote)))
             ELSE IF Len(after_quote) >= 1 /\ after_quote[1] = ":"
             THEN TriggerResult("Colon", quote_pos, SubSeq(after_quote, 2, Len(after_quote)))
             ELSE None

\* a variant of find_trigger_position that looks for the first quote of the line
FindTriggerPositionFirstQuote(line) == TriggerAfterQuote(line, Find(line, Quote))

\* find_trigger_position(line_up_to_cursor)
FindTriggerPosition(line) == TriggerAfterQuote(line, RFind(line, Quote, Len(line)))

InitTrigger ==
    /\ InitTrie
    /\ line_up_to_cursor \in Lines
    /\ trigger_result = Pending
    /\ build_files = [file \in BuildFiles |-> "ok"]
    /\ InitBackend

\* let trigger_result = find_trigger_position(line_up_to_cursor);
FindTrigger ==
    /\ trigger_result = Pending
    /\ trigger_result' = FindTriggerPosition(line_up_to_cursor)
    /\ UNCHANGED <<target_trie, inserted, prefix, result, missed, panicked, op,
                   line_up_to_cursor, serverVars, formatVars, extractVars, lensVars, sessionVars>>

NextTrigger == FindTrigger

SpecTrigger == InitTrigger /\ [][NextTrigger]_vars

----------------------------------------------------------------------------
(* The workspace indexer: initialize and populate_trie_from_build_file.  The
   build files and documents hold rule calls r(name="...") that start a line;
   what the tree-sitter query of extract_targets finds in such a text is the
   names of these calls, in order. *)

\* the line of a rule call that declares the target name
RuleLine(name) == <<"r", "(", "n", "a", "m", "e", "=", Quote>> \o name \o <<Quote, ")">>

\* the captures @rule_type and @target_name of the target_query on the line
\* that starts a call: Some(name) when the first keyword argument of the call
\* has a non-empty string value
TargetNameOf(line) ==
    LET opening == <<"r", "(", "n", "a", "m", "e", "=", Quote>>
        rest == SubSeq(line, Len(opening) + 1, Len(line))
    IN  IF IsPrefixOf(opening, line) /\ Find(rest, Quote) > 1
        THEN [tag |-> "some", name |-> SubSeq(rest, 1, Find(rest, Quote) - 1)]
        ELSE [tag |-> "none"]

RECURSIVE TargetNames(_)
TargetNames(lines) ==
    IF lines = <<>> THEN <<>>
    ELSE LET t == TargetNameOf(Head(lines))
         IN  (IF t.tag = "some" THEN <<t.name>> ELSE <<>>) \o TargetNames(Tail(lines))

\* BazelParser::extract_targets(source), given that the parser returned a tree:
\* the names of the targets, in document order
ExtractTargets(text) == TargetNames(StrLines(text))

\* fs::read_to_string(build_file), for a file that can be read
FileText(file) ==
    IF file = RootBuildFile
    THEN JoinLines(<<RuleLine(<<"x">>)>>, <<LF>>)
    ELSE JoinLines(<<RuleLine(<<"x">>), RuleLine(<<"x", "y">>)>>, <<LF>>)

\* what can be wrong with a build file: nothing, fs::read_to_string fails, or
\* extract_targets fails
FileStates == {"ok", "unreadable", "unparsed"}

\* bazel::is_workspace_dir
IsWorkspaceDir(path) == path \in {WorkspaceDir, SecondWorkspaceDir}

\* bazel::find_workspace_root: the nearest of path and its ancestors that is a
\* workspace directory
RECURSIVE FindWorkspaceRoot(_)
FindWorkspaceRoot(path) ==
    IF IsWorkspaceDir(path) THEN [tag |-> "some", dir |-> path]
    ELSE IF path = <<>> THEN [tag |-> "none"]
    ELSE FindWorkspaceRoot(SubSeq(path, 1, Len(path) - 1))

\* Path::to_string_lossy of a relative path: its components joined by '/'
\* (every directory of the model has a name of one character)
RECURSIVE PathToString(_)
PathToString(components) ==
    IF components = <<>> THEN <<>>
    ELSE IF Len(components) = 1 THEN <<components[1]>>
    ELSE <<components[1], "/">> \o PathToString(Tail(components))

\* let package_path = ...: the parent directory of the build file relative to
\* the workspace root, the empty string when there is no root or the parent
\* does not lie below it
PackagePath(build_file) ==
    LET workspace_root == FindWorkspaceRoot(build_file)
        parent == SubSeq(build_file, 1, Len(build_file) - 1)
    IN  IF workspace_root.tag = "some" /\ IsPrefixOf(workspace_root.dir, parent)
        THEN PathToString(SubSeq(parent, Len(workspace_root.dir) + 1, Len(parent)))
        ELSE <<>>

\* format!("//{}:{}", package_path, target.name)
FullBuildPath(package_path, name) == <<"/", "/">> \o package_path \o <<":">> \o name

\* a variant of FullTargetPath that leaves the package out of the key
FullTargetPathBare(package_path, name) == name

\* let full_target_path = if package_path.is_empty() { target.name } else
\* { format!("{}:{}", package_path, target.name) }
FullTargetPath(package_path, name) ==
    IF package_path = <<>> THEN name ELSE package_path \o <<":">> \o name

\* trie.insert_target(path, rule) on st = [trie, inserted, panic], with the
\* record of the call that the action Insert keeps
InsertRecorded(st, path, rule) ==
    IF st.panic THEN st
    ELSE LET r == InsertTarget(st.trie, path, rule)
         IN  [trie |-> r.trie,
              panic |-> r.panic,
              inserted |-> IF r.panic THEN st.inserted
                           ELSE Append(st.inserted,
                                       [path |-> path, rule |-> rule, node |-> r.node,
                                        package_path |-> r.package_path,
                                        rule_name |-> r.rule_name])]

\* for target in targets { ... trie.insert_target(&full_target_path, rule); }
RECURSIVE InsertTargets(_, _, _)
InsertTargets(st, package_path, targets) ==
    IF targets = <<>> THEN st
    ELSE InsertTargets(InsertRecorded(st, FullTargetPath(package_path, Head(targets)),
                                      RuleInfoNew(Head(targets),
                                                  FullBuildPath(package_path, Head(targets)))),
                       package_path, Tail(targets))

\* populate_trie_from_build_file(build_file, trie), the file being in state
\* file_state; its result is always Ok(())
PopulateTrieFromBuildFile(st, build_file, file_state) ==
    IF file_state = "unreadable" THEN st
    ELSE IF file_state = "unparsed" THEN st
    ELSE InsertTargets(st, PackagePath(build_file), ExtractTargets(FileText(build_file)))

\* bazel::find_build_files(dir): the build files below dir, in the order in
\* which read_dir lists them, which is unspecified: order is one enumeration
\* of the build files
FindBuildFiles(dir, order) == SelectSeq(order, LAMBDA file : IsPrefixOf(dir, file))

\* a variant of PopulateAll that gives up at the first build file that cannot
\* be read or parsed
RECURSIVE PopulateUntilFailure(_, _, _)
PopulateUntilFailure(st, files, fs) ==
    IF files = <<>> \/ fs[Head(files)] # "ok" THEN st
    ELSE PopulateUntilFailure(PopulateTrieFromBuildFile(st, Head(files), fs[Head(files)]),
                              Tail(files), fs)

\* for build_file in build_files.iter() { let _ = self.populate_trie_from_build_file(..); }
RECURSIVE PopulateAll(_, _, _)
PopulateAll(st, files, fs) ==
    IF files = <<>> THEN st
    ELSE PopulateAll(PopulateTrieFromBuildFile(st, Head(files), fs[Head(files)]),
                     Tail(files), fs)

\* for folder in workspace_folders { if let Ok(true) = is_workspace_dir(&path) { ... } }
RECURSIVE IndexFolders(_, _, _, _)
IndexFolders(st, folders, order, fs) ==
    IF folders = <<>> THEN st
    ELSE LET st2 == IF IsWorkspaceDir(Head(folders))
                    THEN PopulateAll(st, FindBuildFiles(Head(folders), order), fs)
                    ELSE st
         IN  IndexFolders(st2, Tail(folders), order, fs)

\* the enumerations of the build files
Orders == {order \in [1..Cardinality(BuildFiles) -> BuildFiles] :
               \A i, j \in DOMAIN order : i # j => order[i] # order[j]}

\* params.workspace_folders of initialize; None leaves the folders of the
\* server empty, as Some of no folder does
FolderLists == {<<>>, <<WorkspaceDir>>, <<OtherDir>>, <<OtherDir, WorkspaceDir>>}

\* initialize(params), with params.workspace_folders = folders
Initialize(folders, order) ==
    /\ server_state = "uninitialized"
    /\ ~panicked
    /\ op = "idle"
    /\ LET st == IndexFolders([trie |-> target_trie, inserted |-> inserted, panic |-> FALSE],
                              folders, order, build_files)
       IN  /\ target_trie' = st.trie
           /\ inserted' = st.inserted
           /\ panicked' = st.panic
           /\ server_state' = IF st.panic THEN "uninitialized" ELSE "initialized"
    /\ workspace_folders' = folders
    /\ UNCHANGED <<prefix, result, missed, op, line_up_to_cursor, trigger_result,
                   build_files, documents, request, response, formatVars, extractVars, lensVars, sessionVars>>

----------------------------------------------------------------------------
(* The documents of the editor and the completion handler. *)

\* largest line number and largest character offset of a completion request
MaxLine == 4
MaxCharacter == 7

CursorPositions == [line : 0..MaxLine, character : 0..MaxCharacter]

\* the entries of a deps list that the editor shows
EntryLines ==
    { <<Quote, ":", Quote, ",">>,
      <<Quote, ":", "x", Quote, ",">>,
      <<Quote, "/", "/", "a", Quote, ",">>,
      <<Quote, "/", "/", ":", Quote, ",">> }

\* the texts the editor opens: the rule x, and the rule y with a deps list of
\* one entry on a line of its own
DocumentText(entry) ==
    JoinLines(<< RuleLine(<<"x">>),
                 <<"r", "(", "n", "a", "m", "e", "=", Quote, "y", Quote, ",",
                   "d", "e", "p", "s", "=", "[">>,
                 entry,
                 <<"]", ")">> >>, <<LF>>)

DocumentTexts == {DocumentText(entry) : entry \in EntryLines}

\* BazelParser::position_to_byte_index(text, position): the lines before the
\* position count with one byte of line ending each, and the offset within
\* the line stops at the end of the line
RECURSIVE BytesBefore(_, _)
BytesBefore(lines, n) ==
    IF n = 0 \/ lines = <<>> THEN 0
    ELSE Len(Head(lines)) + 1 + BytesBefore(Tail(lines), n - 1)

PositionToByteIndex(text, position) ==
    LET lines == StrLines(text)
    IN  BytesBefore(lines, position.line)
        + (IF position.line < Len(lines)
           THEN (IF position.character < Len(lines[position.line + 1])
                 THEN position.character
                 ELSE Len(lines[position.line + 1]))
           ELSE 0)

\* BazelParser::is_in_deps_attribute(text, position) may give Ok(true) only for
\* a position inside the brackets of a deps list that is not empty
MayBeInDepsAttribute(text, position) ==
    LET open == Find(text, "[")
        close == Find(text, "]")
        at == PositionToByteIndex(text, position)
    IN  open > 0 /\ close > open + 1 /\ open <= at /\ at < close

\* did_open(params): documents.insert(uri, text)
DidOpen(path, text) ==
    /\ server_state = "initialized"
    /\ ~panicked
    /\ request = Pending
    /\ documents' = [documents EXCEPT ![path] = [open |-> TRUE, text |-> text]]
    /\ UNCHANGED <<target_trie, inserted, prefix, result, missed, panicked, op,
                   line_up_to_cursor, trigger_result,
                   build_files, server_state, workspace_folders, request, response,
                   formatVars, extractVars, lensVars, sessionVars>>

\* text.lines().nth(n).unwrap_or("")
NthLine(text, n) == IF n + 1 <= Len(StrLines(text)) THEN StrLines(text)[n + 1] ELSE <<>>

\* folders.iter().any(|folder| file_path.starts_with(&folder_path))
IsInWorkspace(file_path, folders) ==
    \E i \in 1..Len(folders) : IsPrefixOf(folders[i], file_path)

\* create_edit_text_in_workspace(trigger_result, rule)
CreateEditTextInWorkspace(trigger, rule) ==
    IF trigger.tag = "some"
    THEN IF IsPrefixOf(<<"/", "/">>, trigger.text_after_trigger)
         THEN rule.full_build_path
         ELSE IF IsPrefixOf(<<":">>, trigger.text_after_trigger)
         THEN <<":">> \o rule.name
         ELSE rule.full_build_path
    ELSE rule.full_build_path

\* text_edit: None
NoTextEdit == [tag |-> "none"]

\* CompletionItem { label, detail, text_edit, .. }
CompletionItem(label, text_edit) ==
    [label |-> label, detail |-> <<"Target: ">> \o label, text_edit |-> text_edit]

\* the rules of the groups that a search returned
MatchingRules(t, hits) == UNION {{t[n].rules[j] : j \in 1..Len(t[n].rules)} : n \in hits}

\* Ok(Some(CompletionResponse::Array(items))); the order of the items is not
\* kept
CompletionArray(items) == [tag |-> "array", items |-> items]

\* completion_in_workspace(position, trigger_result), under the read lock of
\* the trie
CompletionInWorkspace(t, position, trigger) ==
    LET found == IF trigger.tag = "some" THEN StartsWith(t, trigger.text_after_trigger)
                 ELSE [panic |-> FALSE, missed |-> FALSE, hits |-> {}]
        start == [line |-> position.line,
                  character |-> IF trigger.tag = "some" THEN trigger.trigger_pos ELSE 0]
    IN  [panic |-> found.panic,
         response |->
             CompletionArray(
                 { CompletionItem(rule.full_build_path,
                                  [tag |-> "some",
                                   range |-> [start |-> start, end |-> position],
                                   new_text |-> CreateEditTextInWorkspace(trigger, rule)])
                   : rule \in MatchingRules(t, found.hits) })]

\* a variant of completion_in_file that offers every target of the document
CompletionInFileUnfiltered(trigger, text, extract_ok) ==
    IF trigger.tag = "some" /\ trigger.trigger_type = "DoubleSlash" THEN None
    ELSE IF ~extract_ok THEN None
    ELSE LET targets == ExtractTargets(text)
         IN  CompletionArray({ CompletionItem(targets[i], NoTextEdit) : i \in 1..Len(targets) })

\* completion_in_file(trigger_result, text); extract_ok tells whether
\* extract_targets returned Ok
CompletionInFile(trigger, text, extract_ok) ==
    IF trigger.tag = "some" /\ trigger.trigger_type = "DoubleSlash" THEN None
    ELSE IF ~extract_ok THEN None
    ELSE LET targets == ExtractTargets(text)
         IN  IF trigger.tag = "some"
             THEN CompletionArray(
                      { CompletionItem(targets[i], NoTextEdit)
                        : i \in {i \in 1..Len(targets)
                                 : IsPrefixOf(trigger.text_after_trigger, targets[i])} })
             ELSE CompletionArray({})

\* &line[..position.character as usize]: panics when the offset lies beyond
\* the end of the line
Slice(line, character) ==
    IF character > Len(line) THEN [panic |-> TRUE, slice |-> <<>>]
    ELSE [panic |-> FALSE, slice |-> SubSeq(line, 1, character)]

\* completion(params) for the document at path and the cursor at position.
\* in_deps is what is_in_deps_attribute(&text, &position).unwrap_or(false)
\* gives, extract_ok whether extract_targets returns Ok.
Completion(path, position, in_deps, extract_ok) ==
    /\ server_state = "initialized"
    /\ ~panicked
    /\ op = "idle"
    /\ request = Pending
    /\ in_deps => MayBeInDepsAttribute(documents[path].text, position)
    /\ request' = [path |-> path, position |-> position, in_deps |-> in_deps,
                   extract_ok |-> extract_ok]
    /\ LET text == documents[path].text
           line == NthLine(text, position.line)
           cut == Slice(line, position.character)
           trigger == FindTriggerPosition(cut.slice)
       IN  IF ~in_deps
           THEN /\ response' = None
                /\ UNCHANGED <<panicked, line_up_to_cursor, trigger_result>>
           ELSE IF cut.panic
           THEN /\ panicked' = TRUE
                /\ UNCHANGED <<response, line_up_to_cursor, trigger_result>>
           ELSE /\ line_up_to_cursor' = cut.slice
                /\ trigger_result' = trigger
                /\ IF trigger = None
                   THEN response' = None /\ UNCHANGED panicked
                   ELSE IF IsInWorkspace(path, workspace_folders)
                   THEN LET r == CompletionInWorkspace(target_trie, position, trigger)
                        IN  /\ panicked' = r.panic
                            /\ response' = IF r.panic THEN Pending ELSE r.response
                   ELSE /\ response' = CompletionInFile(trigger, text, extract_ok)
                        /\ UNCHANGED panicked
    /\ UNCHANGED <<target_trie, inserted, prefix, result, missed, op,
                   build_files, server_state, workspace_folders, documents, formatVars, extractVars, lensVars, sessionVars>>

\* the response goes to the client and the locals of the handler are dropped
Reply ==
    /\ request # Pending
    /\ ~panicked
    /\ request' = Pending
    /\ response' = Pending
    /\ line_up_to_cursor' = <<>>
    /\ trigger_result' = Pending
    /\ UNCHANGED <<target_trie, inserted, prefix, result, missed, panicked, op,
                   build_files, server_state, workspace_folders, documents, formatVars, extractVars, lensVars, sessionVars>>

InitializeAny ==
    /\ server_state = "uninitialized"
    /\ \E folders \in FolderLists, order \in Orders : Initialize(folders, order)

DidOpenAny ==
    /\ request = Pending
    /\ \E path \in DocumentPaths, text \in DocumentTexts : DidOpen(path, text)

CompletionAny ==
    /\ request = Pending
    /\ \E path \in DocumentPaths, position \in CursorPositions,
          in_deps \in BOOLEAN, extract_ok \in BOOLEAN :
           Completion(path, position, in_deps, extract_ok)

NextServer ==
    \/ InitializeAny
    \/ DidOpenAny
    \/ CompletionAny
    \/ Reply

SpecServer == Init /\ [][NextServer]_vars

----------------------------------------------------------------------------
(* The indexer over every state of the build files, and the searches for what
   the user types after `//`. *)

InitIndexer ==
    /\ InitTrie
    /\ line_up_to_cursor = <<>>
    /\ trigger_result = Pending
    /\ build_files \in [BuildFiles -> FileStates]
    /\ InitBackend

\* <package_path>:<name> of the targets of the build files
TargetKeys ==
    UNION { { PackagePath(file) \o <<":">> \o ExtractTargets(FileText(file))[i]
              : i \in 1..Len(ExtractTargets(FileText(file))) }
            : file \in BuildFiles }

\* what the user may have typed of a target after `//`
TypedKeys == UNION { {SubSeq(key, 1, k) : k \in 0..Len(key)} : key \in TargetKeys }

SearchTypedKey ==
    /\ op = "idle"
    /\ server_state = "initialized"
    /\ \E p \in TypedKeys : Search(p)

NextIndexer ==
    \/ InitializeAny
    \/ SearchTypedKey
    \/ Release

SpecIndexer == InitIndexer /\ [][NextIndexer]_vars

----------------------------------------------------------------------------
(* The indexer over workspace folder lists of any length: the client may name
   the same directory in several folders, or a directory and one below it. *)

MaxFolders == 2

\* params.workspace_folders of initialize: up to MaxFolders folders, each one
\* the workspace directory or a directory that is no workspace
WorkspaceFolderLists ==
    UNION {[1..n -> {WorkspaceDir, OtherDir}] : n \in 0..MaxFolders}

InitializeFolders ==
    /\ server_state = "uninitialized"
    /\ \E folders \in WorkspaceFolderLists, order \in Orders : Initialize(folders, order)

NextFolders ==
    \/ InitializeFolders
    \/ SearchTypedKey
    \/ Release

SpecFolders == InitIndexer /\ [][NextFolders]_vars

----------------------------------------------------------------------------
(* The deps formatter, BazelParser::sort_deps_in_text.  The texts are ASCII,
   so a character is a byte. *)

Space == " "

\* char::is_whitespace, over the characters of the texts
IsWhitespace(c) == c \in {Space, LF, CR}

\* str::trim_start and str::trim_end
RECURSIVE TrimStart(_)
TrimStart(s) ==
    IF s # <<>> /\ IsWhitespace(Head(s)) THEN TrimStart(Tail(s)) ELSE s

RECURSIVE TrimEnd(_)
TrimEnd(s) ==
    IF s # <<>> /\ IsWhitespace(s[Len(s)]) THEN TrimEnd(SubSeq(s, 1, Len(s) - 1)) ELSE s

\* str::trim
Trim(s) == TrimStart(TrimEnd(s))

\* str::trim_end_matches(c)
RECURSIVE TrimEndMatches(_, _)
TrimEndMatches(s, c) ==
    IF s # <<>> /\ s[Len(s)] = c THEN TrimEndMatches(SubSeq(s, 1, Len(s) - 1), c) ELSE s

\* the byte of a character
ByteOf(c) ==
    CASE c = LF -> 10 [] c = CR -> 13 [] c = Space -> 32 [] c = Quote -> 34
      [] c = "#" -> 35 [] c = "(" -> 40 [] c = ")" -> 41 [] c = "," -> 44
      [] c = "/" -> 47 [] c = ":" -> 58 [] c = "=" -> 61 [] c = "[" -> 91
      [] c = "]" -> 93 [] c = "a" -> 97 [] c = "c" -> 99 [] c = "d" -> 100
      [] c = "e" -> 101 [] c = "f" -> 102 [] c = "n" -> 110 [] c = "p" -> 112
      [] c = "s" -> 115 [] c = "x" -> 120
      [] OTHER -> 127

\* String::cmp(a, b) = Less or Equal: the byte-wise order of strings
RECURSIVE StrLessEq(_, _)
StrLessEq(a, b) ==
    IF a = <<>> THEN TRUE
    ELSE IF b = <<>> THEN FALSE
    ELSE IF Head(a) = Head(b) THEN StrLessEq(Tail(a), Tail(b))
    ELSE ByteOf(Head(a)) < ByteOf(Head(b))

\* The syntax tree of a text that parses, as far as deps_query looks at it:
\* for every character whether it is code, part of a string literal or part
\* of a comment.  A string literal lies within one line; a comment runs from
\* a # outside the string literals to the end of its line.
LineStart(text, i) ==
    LET feeds == {k \in 1..(i - 1) : text[k] = LF}
    IN  IF feeds = {} THEN 1 ELSE 1 + CHOOSE k \in feeds : \A j \in feeds : j <= k

QuotesBetween(text, from, to) == Cardinality({k \in from..to : text[k] = Quote})

\* the # that starts the comment of the line that begins at start (0: none)
CommentStart(text, start, i) ==
    LET hashes == {h \in start..i : text[h] = "#" /\ QuotesBetween(text, start, h - 1) % 2 = 0}
    IN  IF hashes = {} THEN 0 ELSE CHOOSE h \in hashes : \A j \in hashes : h <= j

Parse(text) ==
    [i \in 1..Len(text) |->
        LET start == LineStart(text, i)
            hash == CommentStart(text, start, i)
        IN  IF text[i] = LF THEN "code"
            ELSE IF hash > 0 THEN "comment"
            ELSE IF text[i] = Quote \/ QuotesBetween(text, start, i - 1) % 2 = 1 THEN "string"
            ELSE "code"]

IdentifierChars == {"a", "c", "d", "e", "f", "n", "p", "s", "x", "_"}

\* the first character at or after i that is neither white space nor comment
\* (Len(text) + 1 when there is none)
RECURSIVE NextToken(_, _, _)
NextToken(text, tree, i) ==
    IF i > Len(text) THEN Len(text) + 1
    ELSE IF tree[i] = "comment" \/ (tree[i] = "code" /\ IsWhitespace(text[i]))
         THEN NextToken(text, tree, i + 1)
         ELSE i

\* the last character at or before i that is neither white space nor comment
\* (0 when there is none)
RECURSIVE PrevToken(_, _, _)
PrevToken(text, tree, i) ==
    IF i < 1 THEN 0
    ELSE IF tree[i] = "comment" \/ (tree[i] = "code" /\ IsWhitespace(text[i]))
         THEN PrevToken(text, tree, i - 1)
         ELSE i

\* the bracket that closes the list opened before i (0 when none does)
ClosingBracket(text, tree, i) ==
    LET Opened(j) == Cardinality({k \in i..j : tree[k] = "code" /\ text[k] = "["})
        Closed(j) == Cardinality({k \in i..j : tree[k] = "code" /\ text[k] = "]"})
        closing == {j \in i..Len(text) : tree[j] = "code" /\ text[j] = "]"
                                           /\ Closed(j) = Opened(j) + 1}
    IN  IF closing = {} THEN 0 ELSE CHOOSE j \in closing : \A k \in closing : j <= k

IsCodeChar(text, tree, i, c) == i >= 1 /\ i <= Len(text) /\ tree[i] = "code" /\ text[i] = c

\* deps_query at the character i: a keyword argument of a call, named deps,
\* whose value is a list; None when there is no such node at i
DepsArgAt(text, tree, i) ==
    LET eq == NextToken(text, tree, i + 4)
        open == NextToken(text, tree, eq + 1)
        close == ClosingBracket(text, tree, open + 1)
        before == PrevToken(text, tree, i - 1)
    IN  IF /\ i + 3 <= Len(text)
           /\ SubSeq(text, i, i + 3) = <<"d", "e", "p", "s">>
           /\ \A k \in i..(i + 3) : tree[k] = "code"
           /\ (i = 1 \/ text[i - 1] \notin IdentifierChars)
           /\ (IsCodeChar(text, tree, before, "(") \/ IsCodeChar(text, tree, before, ","))
           /\ IsCodeChar(text, tree, eq, "=")
           /\ ~IsCodeChar(text, tree, eq + 1, "=")
           /\ IsCodeChar(text, tree, open, "[")
           /\ close > 0
        THEN [tag |-> "deps_arg", start_byte |-> i - 1, end_byte |-> close,
              list_start |-> open - 1]
        ELSE None

\* the numbers of S in ascending order
Ascending(S) ==
    [n \in 1..Cardinality(S) |->
        CHOOSE i \in S : Cardinality({j \in S : j < i}) = n - 1]

\* cursor.matches(&self.deps_query, tree.root_node(), source): the deps
\* arguments of the text, in the order of the text
DepsMatches(text) ==
    LET tree == Parse(text)
        starts == Ascending({i \in 1..Len(text) : DepsArgAt(text, tree, i) # None})
    IN  [n \in 1..Len(starts) |-> DepsArgAt(text, tree, starts[n])]

\* Node::start_position and Node::end_position: the row is the number of line
\* feeds before the byte, the column the number of bytes after the last of them
PointOf(text, byte) ==
    LET feeds == {i \in 1..byte : text[i] = LF}
        last == IF feeds = {} THEN 0 ELSE CHOOSE i \in feeds : \A j \in feeds : j <= i
    IN  [line |-> Cardinality(feeds), character |-> byte - last]

\* One line of the list's content (parser.rs:322-340): the entry (dep_name,
\* dep_line) it gives, None when the line is skipped; the slice dep[1..0] of a
\* lone quote panics
DepOfLine(content_line) ==
    LET line == Trim(content_line)
        dep_line == Trim(TrimEndMatches(line, ","))
        dep == IF Contains(dep_line, "#")
               THEN Trim(SubSeq(dep_line, 1, Find(dep_line, "#") - 1))
               ELSE dep_line
    IN  IF line = <<>> \/ line = <<",">> THEN None
        ELSE IF dep_line = <<>> \/ Head(dep_line) # Quote THEN None
        ELSE IF Head(dep) = Quote /\ dep[Len(dep)] = Quote
             THEN (IF Len(dep) = 1 THEN [tag |-> "panic"]
                   ELSE [tag |-> "dep", name |-> SubSeq(dep, 2, Len(dep) - 1), line |-> dep_line])
             ELSE None

\* for line in content.lines(): the entries in the order of the list, the
\* first of every dep_name only
RECURSIVE CollectDeps(_, _)
CollectDeps(lines, deps) ==
    IF lines = <<>> THEN [panic |-> FALSE, deps |-> deps]
    ELSE LET d == DepOfLine(Head(lines))
         IN  IF d = None THEN CollectDeps(Tail(lines), deps)
             ELSE IF d.tag = "panic" THEN [panic |-> TRUE, deps |-> deps]
             ELSE IF \E k \in 1..Len(deps) : deps[k].name = d.name
                  THEN CollectDeps(Tail(lines), deps)
                  ELSE CollectDeps(Tail(lines), Append(deps, d))

\* deps.sort_by(|a, b| a.0.cmp(&b.0)): a stable sort by dep_name
RECURSIVE SortDeps(_)
SortDeps(deps) ==
    IF deps = <<>> THEN <<>>
    ELSE LET sorted == SortDeps(SubSeq(deps, 1, Len(deps) - 1))
             d == deps[Len(deps)]
             keep == Cardinality({k \in 1..Len(sorted) : StrLessEq(sorted[k].name, d.name)})
         IN  SubSeq(sorted, 1, keep) \o <<d>> \o SubSeq(sorted, keep + 1, Len(sorted))

Indent(n) == [i \in 1..n |-> Space]

\* sorted_lines.join(",\n        ")
RECURSIVE JoinDepLines(_)
JoinDepLines(deps) ==
    IF deps = <<>> THEN <<>>
    ELSE IF Len(deps) = 1 THEN deps[1].line
    ELSE deps[1].line \o <<",", LF>> \o Indent(8) \o JoinDepLines(Tail(deps))

\* formatted_deps (parser.rs:365-374)
FormattedDeps(deps) ==
    IF deps = <<>> THEN <<"d", "e", "p", "s", Space, "=", Space, "[", "]">>
    ELSE <<"d", "e", "p", "s", Space, "=", Space, "[", LF>> \o Indent(8)
         \o JoinDepLines(deps) \o <<",">> \o <<LF>> \o Indent(4) \o <<"]">>

\* One match of deps_query (parser.rs:303-379): the change (start, end,
\* formatted_deps) it pushes
ChangeOf(text, match) ==
    LET list_text == Trim(SubSeq(text, match.list_start + 1, match.end_byte))
        content == SubSeq(list_text, 2, Len(list_text) - 1)
        collected == CollectDeps(StrLines(content), <<>>)
    IN  [panic |-> collected.panic,
         start |-> PositionToByteIndex(text, PointOf(text, match.start_byte)),
         end |-> PositionToByteIndex(text, PointOf(text, match.end_byte)),
         formatted_deps |-> FormattedDeps(SortDeps(collected.deps))]

\* changes.sort_by(|a, b| b.0.cmp(&a.0)): a stable sort, the largest start first
RECURSIVE SortChanges(_)
SortChanges(changes) ==
    IF changes = <<>> THEN <<>>
    ELSE LET sorted == SortChanges(SubSeq(changes, 1, Len(changes) - 1))
             c == changes[Len(changes)]
             keep == Cardinality({k \in 1..Len(sorted) : sorted[k].start >= c.start})
         IN  SubSeq(sorted, 1, keep) \o <<c>> \o SubSeq(sorted, keep + 1, Len(sorted))

\* result.replace_range(start..end, &formatted_deps) for every change; a range
\* that ends before it starts or after the end of the text panics
RECURSIVE ApplyChanges(_, _)
ApplyChanges(text, changes) ==
    IF changes = <<>> THEN [panic |-> FALSE, text |-> text]
    ELSE LET c == Head(changes)
         IN  IF c.start > c.end \/ c.end > Len(text) THEN [panic |-> TRUE, text |-> text]
             ELSE ApplyChanges(SubSeq(text, 1, c.start) \o c.formatted_deps
                                   \o SubSeq(text, c.end + 1, Len(text)),
                               Tail(changes))

\* BazelParser::sort_deps_in_text(source)
SortDepsInText(text) ==
    LET matches == DepsMatches(text)
        changes == [n \in 1..Len(matches) |-> ChangeOf(text, matches[n])]
    IN  IF \E n \in 1..Len(changes) : changes[n].panic
        THEN [panic |-> TRUE, text |-> text]
        ELSE ApplyChanges(text, SortChanges(changes))

\* The texts handed to the formatter.
\* most entries of a deps list, most successive calls, and the blank lines of
\* the header that some texts start with
MaxDeps == 3
MaxPasses == 2
HeaderBlankLines == 10

Str(dep) == <<Quote>> \o dep \o <<Quote>>

DepNames == { <<"/", "/", "a", ":", "x">>, <<"/", "/", "c", ":", "x">> }

\* an entry of a list: a dependency, with or without a trailing comment
Entries == [dep : DepNames, note : BOOLEAN]

Note == <<"#", Space, "n">>

\* the entry on a line of its own, as formatting_tests.rs writes it:
\*         "//base:lib1",  # duplicate
EntryLine(e) ==
    Indent(8) \o Str(e.dep) \o <<",">> \o (IF e.note THEN <<Space, Space>> \o Note ELSE <<>>)

RECURSIVE SeqsUpTo(_, _)
SeqsUpTo(S, n) ==
    IF n = 0 THEN {<<>>}
    ELSE LET shorter == SeqsUpTo(S, n - 1)
         IN  shorter \cup {Append(q, e) : q \in {r \in shorter : Len(r) = n - 1}, e \in S}

EntryLists == SeqsUpTo(Entries, MaxDeps) \ {<<>>}

\* "//c:x", "//a:x", "//a:x"
RECURSIVE InlineEntries(_)
InlineEntries(entries) ==
    IF entries = <<>> THEN <<>>
    ELSE IF Len(entries) = 1 THEN Str(entries[1].dep)
    ELSE Str(entries[1].dep) \o <<",", Space>> \o InlineEntries(Tail(entries))

RECURSIVE EntryLinesOf(_)
EntryLinesOf(entries) ==
    IF entries = <<>> THEN <<>>
    ELSE <<EntryLine(Head(entries))>> \o EntryLinesOf(Tail(entries))

NameArg == <<"n", "a", "m", "e", Space, "=", Space>> \o Str(<<"x">>) \o <<",">>

\* a call with its arguments on lines of their own, as formatting_tests.rs
\* writes them
CallLines(arg_lines) == << <<"f", "(">>, Indent(4) \o NameArg >> \o arg_lines \o << <<")">> >>

EmptyDeps == <<"d", "e", "p", "s", Space, "=", Space, "[", "]">>
EmptyDepsTight == <<"d", "e", "p", "s", "=", "[", "]">>

\* the lines of a text with a deps list of the entries, one per line
OnePerLine(entries) ==
    CallLines(<< Indent(4) \o <<"d", "e", "p", "s", Space, "=", Space, "[">> >>
              \o EntryLinesOf(entries) \o << Indent(4) \o <<"]", ",">> >>)

\* the lines of a text with a deps list of the entries, all on one line
OnOneLine(entries) ==
    CallLines(<< Indent(4) \o <<"d", "e", "p", "s", Space, "=", Space, "[">>
                 \o InlineEntries(entries) \o <<"]", ",">> >>)

\* the header: blank lines and a comment line
Header == [i \in 1..HeaderBlankLines |-> <<>>]
          \o << <<"#">> \o [i \in 1..(HeaderBlankLines + 2) |-> "x"] >>

\* a call on one line, after the header
AfterHeader(deps_arg) == Header \o << <<"f", "(">> \o deps_arg \o <<")">> >>

\* the lists of two entries without comment
PlainPairs == {q \in [1..2 -> Entries] : \A k \in 1..2 : ~q[k].note}

\* the lines of a text with two calls, each with a deps list, as
\* test_sort_deps_multiple_targets writes them
TwoCalls(first, second) == OnePerLine(first) \o << <<>> >> \o OnePerLine(second)

\* the lines of a text whose deps list holds a call with a deps list of its own:
\*     deps = [
\*         "//c:x",
\*         g(deps = ["//a:x"]),
\*     ],
NestedDeps(outer, inner) ==
    CallLines(<< Indent(4) \o <<"d", "e", "p", "s", Space, "=", Space, "[">>,
                 Indent(8) \o Str(outer) \o <<",">>,
                 Indent(8) \o <<"g", "(", "d", "e", "p", "s", Space, "=", Space, "[">>
                     \o Str(inner) \o <<"]", ")", ",">>,
                 Indent(4) \o <<"]", ",">> >>)

SourceLines ==
    { CallLines(<<>>), CallLines(<< Indent(4) \o EmptyDeps \o <<",">> >>),
      AfterHeader(EmptyDeps), AfterHeader(EmptyDepsTight) }
    \cup {OnePerLine(entries) : entries \in EntryLists}
    \cup {OnOneLine(entries) : entries \in {q \in EntryLists : \A k \in 1..Len(q) : ~q[k].note}}
    \cup {TwoCalls(first, second) : first, second \in PlainPairs}
    \cup {NestedDeps(outer, inner) : outer, inner \in DepNames}

LineEndings == { <<LF>>, <<CR, LF>> }

Sources == {JoinLines(lines, eol) : lines \in SourceLines, eol \in LineEndings}

InitFormat ==
    /\ InitTrie
    /\ line_up_to_cursor = <<>>
    /\ trigger_result = Pending
    /\ build_files = [file \in BuildFiles |-> "ok"]
    /\ server_state = "uninitialized"
    /\ workspace_folders = <<>>
    /\ documents = [path \in DocumentPaths |-> NoDocument]
    /\ request = Pending
    /\ response = Pending
    /\ source \in Sources
    /\ formatted = <<>>
    /\ rule_calls = <<>>
    /\ extracted = Pending
    /\ lenses = Pending
    /\ InitSessionVars

\* a call of sort_deps_in_text: the first with source, every later one with
\* what the call before it returned
Format ==
    /\ Len(formatted) < MaxPasses
    /\ (formatted # <<>> => ~formatted[Len(formatted)].panic)
    /\ formatted' = Append(formatted,
                           SortDepsInText(IF formatted = <<>> THEN source
                                          ELSE formatted[Len(formatted)].text))
    /\ UNCHANGED <<target_trie, inserted, prefix, result, missed, panicked, op,
                   line_up_to_cursor, trigger_result, serverVars, source, extractVars, lensVars, sessionVars>>

NextFormat == Format

SpecFormat == InitFormat /\ [][NextFormat]_vars

----------------------------------------------------------------------------
(* Target extraction, BazelParser::extract_targets.  The parser of tree-sitter
   is outside the repository; extract_targets is modelled on the tree it
   returns: the calls of the text in document order, each with its function
   identifier and the keyword arguments of its argument list. *)

\* most calls of a text, and most keyword arguments of a call
MaxCalls == 2
MaxArgs == 2

ArgNames == {"name", "cmd"}

\* the value of a keyword argument: the kind of its node and its text
ArgValues ==
    { [kind |-> "string", text |-> Str(<<"l">>)],
      [kind |-> "string", text |-> Str(<<"c">>)],
      [kind |-> "list", text |-> <<"[", "]">>] }

KeywordArguments == [name : ArgNames, value : ArgValues]

RuleTypes == {"go_library"}

Calls == [function : RuleTypes, arguments : SeqsUpTo(KeywordArguments, MaxArgs)]

CallLists == SeqsUpTo(Calls, MaxCalls)

\* target_query on the call number c: one match for every keyword argument of
\* the call whose value is a string, whatever its name, in document order
RECURSIVE MatchesOfArguments(_, _, _)
MatchesOfArguments(c, function, arguments) ==
    IF arguments = <<>> THEN <<>>
    ELSE (IF Head(arguments).value.kind = "string"
          THEN << [rule_call |-> c, rule_type |-> function,
                   arg_name |-> Head(arguments).name,
                   target_name |-> Head(arguments).value.text] >>
          ELSE <<>>)
         \o MatchesOfArguments(c, function, Tail(arguments))

\* cursor.matches(&self.target_query, tree.root_node(), source), from the call
\* number c on
RECURSIVE TargetMatches(_, _)
TargetMatches(calls, c) ==
    IF c > Len(calls) THEN <<>>
    ELSE MatchesOfArguments(c, calls[c].function, calls[c].arguments)
         \o TargetMatches(calls, c + 1)

\* while let Some(m) = matches.next() { ... }: the first match of a call marks
\* the call as processed and pushes a target when the captured string is
\* quoted and not empty; later matches of the call are skipped
RECURSIVE ExtractLoop(_, _, _)
ExtractLoop(matches, processed_rule_calls, found) ==
    IF matches = <<>> THEN found
    ELSE LET m == Head(matches)
             text == m.target_name
             target_name == IF Head(text) = Quote /\ text[Len(text)] = Quote
                            THEN SubSeq(text, 2, Len(text) - 1)
                            ELSE <<>>
         IN  IF m.rule_call \in processed_rule_calls
             THEN ExtractLoop(Tail(matches), processed_rule_calls, found)
             ELSE ExtractLoop(Tail(matches), processed_rule_calls \cup {m.rule_call},
                              IF m.rule_type # "" /\ target_name # <<>>
                              THEN Append(found, [name |-> target_name,
                                                  rule_type |-> m.rule_type,
                                                  rule_call |-> m.rule_call])
                              ELSE found)

\* BazelParser::extract_targets, given that the parser returned a tree with
\* these calls
ExtractTargetsOfCalls(calls) == ExtractLoop(TargetMatches(calls, 1), {}, <<>>)

InitExtract ==
    /\ InitTrie
    /\ line_up_to_cursor = <<>>
    /\ trigger_result = Pending
    /\ build_files = [file \in BuildFiles |-> "ok"]
    /\ server_state = "uninitialized"
    /\ workspace_folders = <<>>
    /\ documents = [path \in DocumentPaths |-> NoDocument]
    /\ request = Pending
    /\ response = Pending
    /\ source = <<>>
    /\ formatted = <<>>
    /\ rule_calls \in CallLists
    /\ extracted = Pending
    /\ lenses = Pending
    /\ InitSessionVars

\* let targets = parser.extract_targets(source)
Extract ==
    /\ extracted = Pending
    /\ extracted' = [tag |-> "ok", targets |-> ExtractTargetsOfCalls(rule_calls)]
    /\ UNCHANGED <<target_trie, inserted, prefix, result, missed, panicked, op,
                   line_up_to_cursor, trigger_result, serverVars, formatVars, rule_calls, lensVars, sessionVars>>

NextExtract == Extract

SpecExtract == InitExtract /\ [][NextExtract]_vars

----------------------------------------------------------------------------
(* The code lenses, Backend::code_lens.  The documents hold rule calls
   <rule_type>(name="<name>") that start a line. *)

\* the line of a call of rule_type that declares the target name
RuleCallLine(rule_type, name) ==
    rule_type \o <<"(", "n", "a", "m", "e", "=", Quote>> \o name \o <<Quote, ")">>

\* the target that extract_targets finds on the line: its name, its rule_type
\* (the identifier before the parenthesis) and the row of its rule_type_range
TargetOfLine(line, row) ==
    LET paren == Find(line, "(")
        t == TargetNameOf(<<"r">> \o SubSeq(line, paren, Len(line)))
    IN  IF paren > 1 /\ t.tag = "some"
        THEN [tag |-> "some", name |-> t.name, rule_type |-> SubSeq(line, 1, paren - 1),
              rule_type_range |-> row]
        ELSE None

\* BazelParser::extract_targets(text), given that the parser returned a tree:
\* the targets in document order
RECURSIVE TargetsOfLines(_, _)
TargetsOfLines(lines, row) ==
    IF row >= Len(lines) THEN <<>>
    ELSE LET t == TargetOfLine(lines[row + 1], row)
         IN  (IF t = None THEN <<>> ELSE <<t>>) \o TargetsOfLines(lines, row + 1)

ExtractTargetsWithRuleType(text) == TargetsOfLines(StrLines(text), 0)

\* str::ends_with
EndsWith(s, suffix) ==
    Len(suffix) <= Len(s) /\ SubSeq(s, Len(s) - Len(suffix) + 1, Len(s)) = suffix

TestSuffix == <<"_", "t", "e", "s", "t">>
BinarySuffix == <<"_", "b", "i", "n", "a", "r", "y">>

\* CodeLens { range, command: Command { command, arguments: [{"target": ..}] } }
CodeLens(range, command, target) == [range |-> range, command |-> command, target |-> target]

\* the body of `for target in targets` (server.rs:181-226)
LensesOfTarget(target, package_path) ==
    LET full_target_path == IF package_path = <<>>
                            THEN <<"/", "/", ":">> \o target.name
                            ELSE <<"/", "/">> \o package_path \o <<":">> \o target.name
    IN  (IF EndsWith(target.rule_type, TestSuffix)
         THEN <<CodeLens(target.rule_type_range, "bazel.test", full_target_path)>>
         ELSE IF EndsWith(target.rule_type, BinarySuffix)
         THEN <<CodeLens(target.rule_type_range, "bazel.run", full_target_path)>>
         ELSE <<>>)
        \o <<CodeLens(target.rule_type_range, "bazel.build", full_target_path)>>

RECURSIVE LensesOfTargets(_, _)
LensesOfTargets(found, package_path) ==
    IF found = <<>> THEN <<>>
    ELSE LensesOfTarget(Head(found), package_path) \o LensesOfTargets(Tail(found), package_path)

\* workspace_folders.iter().find_map(..): the first folder that is a
\* workspace directory
RECURSIVE FirstWorkspaceFolder(_)
FirstWorkspaceFolder(folders) ==
    IF folders = <<>> THEN None
    ELSE IF IsWorkspaceDir(Head(folders)) THEN [tag |-> "some", dir |-> Head(folders)]
    ELSE FirstWorkspaceFolder(Tail(folders))

\* let package_path = ... (server.rs:169-177): the parent of the file relative
\* to that folder, the empty string when it is not below it
LensPackagePath(file_path, folders) ==
    LET workspace_root == FirstWorkspaceFolder(folders)
        parent == SubSeq(file_path, 1, Len(file_path) - 1)
    IN  IF workspace_root.tag = "some" /\ IsPrefixOf(workspace_root.dir, parent)
        THEN PathToString(SubSeq(parent, Len(workspace_root.dir) + 1, Len(parent)))
        ELSE <<>>

\* the documents of the editor: one in package a/b of WorkspaceDir, one in
\* package p of SecondWorkspaceDir, one outside every workspace
LensDocumentPaths == {PackageBuildFile, <<"s", "p", "BUILD">>, <<"u", "BUILD">>}

LensRuleTypes ==
    { <<"c", "c", "_", "t", "e", "s", "t">>,
      <<"c", "c", "_", "b", "i", "n", "a", "r", "y">>,
      <<"c", "c", "_", "l", "i", "b", "r", "a", "r", "y">> }

\* the texts of the documents: one call, or two
LensTexts ==
    {JoinLines(<<RuleCallLine(t, <<"x">>)>>, <<LF>>) : t \in LensRuleTypes}
    \cup {JoinLines(<<RuleCallLine(t, <<"x">>), RuleCallLine(u, <<"y">>)>>, <<LF>>)
              : t, u \in LensRuleTypes}

\* params.workspace_folders of initialize
LensFolderLists ==
    { <<>>, <<WorkspaceDir>>, <<OtherDir, WorkspaceDir>>,
      <<WorkspaceDir, SecondWorkspaceDir>>, <<SecondWorkspaceDir, WorkspaceDir>> }

InitLens ==
    /\ InitTrie
    /\ line_up_to_cursor = <<>>
    /\ trigger_result = Pending
    /\ build_files = [file \in BuildFiles |-> "ok"]
    /\ server_state = "uninitialized"
    /\ workspace_folders = <<>>
    /\ documents = [path \in LensDocumentPaths |-> NoDocument]
    /\ request = Pending
    /\ response = Pending
    /\ source = <<>>
    /\ formatted = <<>>
    /\ rule_calls = <<>>
    /\ extracted = Pending
    /\ lenses = Pending
    /\ InitSessionVars

InitializeLens ==
    /\ server_state = "uninitialized"
    /\ \E folders \in LensFolderLists, order \in Orders : Initialize(folders, order)

DidOpenLens ==
    /\ lenses = Pending
    /\ \E path \in LensDocumentPaths, text \in LensTexts : DidOpen(path, text)

\* code_lens(params), with params.text_document.uri the uri of path;
\* extract_ok tells whether the parser returned a tree
CodeLensRequest(path, extract_ok) ==
    /\ server_state = "initialized"
    /\ ~panicked
    /\ lenses = Pending
    /\ LET text == documents[path].text
           package_path == LensPackagePath(path, workspace_folders)
       IN  lenses' = [tag |-> "ok", uri |-> path, extract_ok |-> extract_ok,
                      lenses |-> IF extract_ok
                                 THEN LensesOfTargets(ExtractTargetsWithRuleType(text),
                                                      package_path)
                                 ELSE <<>>]
    /\ UNCHANGED <<target_trie, inserted, prefix, result, missed, panicked, op,
                   line_up_to_cursor, trigger_result, serverVars, formatVars, extractVars,
                   sessionVars>>

CodeLensAny ==
    \E path \in LensDocumentPaths, extract_ok \in BOOLEAN : CodeLensRequest(path, extract_ok)

\* the lenses go to the client
ReplyLens ==
    /\ lenses # Pending
    /\ lenses' = Pending
    /\ UNCHANGED <<target_trie, inserted, prefix, result, missed, panicked, op,
                   line_up_to_cursor, trigger_result, serverVars, formatVars, extractVars,
                   sessionVars>>

NextLens ==
    \/ InitializeLens
    \/ DidOpenLens
    \/ CodeLensAny
    \/ ReplyLens

SpecLens == InitLens /\ [][NextLens]_vars

----------------------------------------------------------------------------
(* The session: the handlers of Backend as concurrent tasks.  tower-lsp polls
   the handlers of the requests in flight concurrently; a handler runs from
   one await to the next without interruption, so a step of a task is the
   code between two awaits at which it can be suspended: the acquisition of a
   lock (tokio may suspend the task there even when the lock is free), the
   answer of the client to a request of the server, the exit of the bazel
   process.  The parser mutex is locked and released inside one synchronous
   call (parser.rs:94-97), never across an await. *)

Tasks == {"t1", "t2"}

\* the task of initialize
Initializer == "initialize"

\* the locks in the order in which the handlers take them
LockRank == [documents |-> 1, workspace_folders |-> 2, target_trie |-> 3]

Holds(lock, t) == t \in lock.holders

Queued(lock, t) == \E i \in 1..Len(lock.queue) : lock.queue[i].task = t

\* tokio::sync::RwLock hands the lock to the waiters in the order of their
\* arrival: to the writer at the head of the queue once nobody holds the
\* lock, to the readers at the head as long as no writer holds it
RECURSIVE Grant(_)
Grant(lock) ==
    IF lock.queue = <<>> THEN lock
    ELSE LET w == Head(lock.queue)
         IN  IF w.mode = "write"
             THEN (IF lock.holders = {}
                   THEN [mode |-> "write", holders |-> {w.task}, queue |-> Tail(lock.queue)]
                   ELSE lock)
             ELSE (IF lock.mode # "write"
                   THEN Grant([mode |-> "read", holders |-> lock.holders \cup {w.task},
                               queue |-> Tail(lock.queue)])
                   ELSE lock)

\* lock.read().await and lock.write().await: the task joins the queue, and
\* holds the lock at once when nothing stands in its way
Acquire(lock, t, mode) ==
    Grant([lock EXCEPT !.queue = Append(@, [task |-> t, mode |-> mode])])

\* drop of the guard
ReleaseLock(lock, t) ==
    Grant([mode |-> IF lock.holders \ {t} = {} THEN "free" ELSE lock.mode,
           holders |-> lock.holders \ {t},
           queue |-> lock.queue])

\* drop of every guard of the task, at the return of its handler
ReleaseAll(ls, t) == [l \in DOMAIN ls |-> IF Holds(ls[l], t) THEN ReleaseLock(ls[l], t) ELSE ls[l]]

\* the document of the session
SessionDocument == PackageBuildFile

\* its text when the editor opens it, and after the user has typed `//` over
\* the `:` of the entry
OpenedText == DocumentText(<<Quote, ":", Quote, ",">>)
EditedText == DocumentText(<<Quote, "/", "/", Quote, ",">>)

Position(line, character) == [line |-> line, character |-> character]

\* TextDocumentContentChangeEvent { range, text }
RangeChange(start, end, text) == [ranged |-> TRUE, start |-> start, end |-> end, text |-> text]
FullChange(text) == [ranged |-> FALSE, start |-> Position(0, 0), end |-> Position(0, 0),
                     text |-> text]

\* the user types `//` over the `:` of the entry; the user types `:` over the `//`
TypeSlashes == RangeChange(Position(2, 1), Position(2, 2), <<"/", "/">>)
TypeColon == RangeChange(Position(2, 1), Position(2, 3), <<":">>)

\* the same edit key by key: `/` over the `:`, then a second `/` behind it
TypeSlash == RangeChange(Position(2, 1), Position(2, 2), <<"/">>)
TypeSecondSlash == RangeChange(Position(2, 2), Position(2, 2), <<"/">>)

\* params.content_changes of the did_change that an editor showing the text
\* may send
ContentChangesOf(text) ==
    IF text = OpenedText
    THEN { <<TypeSlashes>>, <<TypeSlash, TypeSecondSlash>>, <<FullChange(EditedText)>> }
    ELSE IF text = EditedText
    THEN { <<TypeColon>>, <<FullChange(OpenedText)>> }
    ELSE {}

\* the cursor of a completion request: behind the `:` of the entry `":",`,
\* and behind the `//` and at the end of the line of the entry `"//",`
SessionCursors == { Position(2, 2), Position(2, 3), Position(2, 5) }

\* Backend::position_to_byte_index (server.rs:478-506), the same computation
\* as that of BazelParser
BackendPositionToByteIndex(text, position) ==
    LET lines == StrLines(text)
    IN  BytesBefore(lines, position.line)
        + (IF position.line < Len(lines)
           THEN (IF position.character < Len(lines[position.line + 1])
                 THEN position.character
                 ELSE Len(lines[position.line + 1]))
           ELSE 0)

\* the body of `for change in content_changes` (server.rs:463-471) on
\* st = [panic, text]; replace_range panics when the range ends before it
\* starts or after the end of the text
ApplyChange(st, change) ==
    IF st.panic THEN st
    ELSE IF change.ranged
    THEN LET start_byte == BackendPositionToByteIndex(st.text, change.start)
             end_byte == BackendPositionToByteIndex(st.text, change.end)
         IN  IF start_byte > end_byte \/ end_byte > Len(st.text)
             THEN [panic |-> TRUE, text |-> st.text]
             ELSE [panic |-> FALSE,
                   text |-> SubSeq(st.text, 1, start_byte) \o change.text
                            \o SubSeq(st.text, end_byte + 1, Len(st.text))]
    ELSE [panic |-> FALSE, text |-> change.text]

\* a variant of ApplyContentChanges that applies every change to the text the
\* document had before the edit, and keeps the last result
RECURSIVE ApplyChangesToOriginal(_, _)
ApplyChangesToOriginal(st, content_changes) ==
    IF content_changes = <<>> THEN st
    ELSE IF Len(content_changes) = 1 THEN ApplyChange(st, content_changes[1])
    ELSE ApplyChangesToOriginal(st, Tail(content_changes))

\* let mut new_text = current_text; for change in content_changes { ... }
RECURSIVE ApplyContentChanges(_, _)
ApplyContentChanges(st, content_changes) ==
    IF content_changes = <<>> THEN st
    ELSE ApplyContentChanges(ApplyChange(st, Head(content_changes)), Tail(content_changes))

\* Diagnostic { range: 0:0-0:0, severity: ERROR, code: "parse_error", .. }
ParseErrorDiagnostic ==
    [range |-> [start |-> Position(0, 0), end |-> Position(0, 0)],
     severity |-> "ERROR", code |-> "parse_error"]

\* a variant of PublishDiagnostics that tells the client nothing when the
\* parser fails
PublishDiagnosticsOfTreeOnly(uri, parse_ok) ==
    IF parse_ok THEN << [uri |-> uri, diagnostics |-> <<>>] >>
    ELSE <<>>

\* publish_diagnostics(uri, text): the notifications it sends; parse_ok tells
\* whether self.parser.parse(text) returned Ok
PublishDiagnostics(uri, parse_ok) ==
    IF parse_ok THEN << [uri |-> uri, diagnostics |-> <<>>] >>
    ELSE << [uri |-> uri, diagnostics |-> <<ParseErrorDiagnostic>>] >>

\* params.workspace_folders of initialize in the session: the workspace of the
\* document, or a folder that is no workspace
SessionFolderLists == { <<WorkspaceDir>>, <<OtherDir>> }

\* the texts the document has in the session
SessionTexts == {<<>>, OpenedText, EditedText}

\* completion, lines 321-324: line, line_up_to_cursor and trigger_result
TriggerOfCursor(text, position) ==
    LET line == NthLine(text, position.line)
        cut == Slice(line, position.character)
    IN  [panic |-> cut.panic, trigger |-> FindTriggerPosition(cut.slice)]

\* what the handlers compute from the text of the document, computed once for
\* each text of the session: new_text of update_document_content for every
\* edit of the text
UpdatedTexts ==
    [text \in SessionTexts |->
        [content_changes \in ContentChangesOf(text) |->
            ApplyContentChanges([panic |-> FALSE, text |-> text], content_changes)]]

\* trigger_result of completion for every cursor
TriggerAt ==
    [text \in SessionTexts |->
        [position \in SessionCursors |-> TriggerOfCursor(text, position)]]

\* the result of sort_deps_in_text
FormattedTexts == [text \in SessionTexts |-> SortDepsInText(text)]

\* a task: the handler it runs, the await it stands at, the locals of the
\* handler, the results of its calls of self.parser.parse and the
\* notifications textDocument/publishDiagnostics it has sent
Task(kind, pc, text, content_changes, position) ==
    [kind |-> kind, pc |-> pc, text |-> text, content_changes |-> content_changes,
     position |-> position, parsed |-> <<>>, published |-> <<>>]

Idle == Task("idle", "idle", <<>>, <<>>, Position(0, 0))

Busy(t) == tasks[t].kind # "idle"

At(t, kind, pc) == tasks[t].kind = kind /\ tasks[t].pc = pc

Serving == server_state = "initialized" /\ ~panicked

InitSession ==
    /\ InitTrie
    /\ line_up_to_cursor = <<>>
    /\ trigger_result = Pending
    /\ build_files = [file \in BuildFiles |-> "ok"]
    /\ server_state = "uninitialized"
    /\ workspace_folders = <<>>
    /\ documents = [path \in {SessionDocument} |-> NoDocument]
    /\ request = Pending
    /\ response = Pending
    /\ source = <<>>
    /\ formatted = <<>>
    /\ rule_calls = <<>>
    /\ extracted = Pending
    /\ lenses = Pending
    /\ tasks = [t \in Tasks |-> Idle]
    /\ locks = [documents |-> FreeLock, workspace_folders |-> FreeLock,
                target_trie |-> FreeLock]
    /\ committed = {<<>>}

\* what the steps of the handlers after initialize leave alone
SessionFrame ==
    UNCHANGED <<target_trie, inserted, prefix, result, missed, op, line_up_to_cursor,
                trigger_result, build_files, server_state, workspace_folders, request,
                response, formatVars, extractVars, lensVars>>

\* initialize, up to the loop over the folders: let mut folders =
\* self.workspace_folders.write().await; *folders = workspace_folders.clone()
InitializeStart ==
    /\ server_state = "uninitialized"
    /\ ~panicked
    /\ \E folders \in SessionFolderLists :
           /\ workspace_folders' = folders
           /\ locks' = [locks EXCEPT !.workspace_folders = Acquire(@, Initializer, "write")]
    /\ server_state' = "initializing"
    /\ UNCHANGED <<target_trie, inserted, prefix, result, missed, panicked, op,
                   line_up_to_cursor, trigger_result, build_files, documents, request,
                   response, formatVars, extractVars, lensVars, tasks, committed>>

\* a variant of InitializeLockTrie that takes the lock of the trie as a reader
InitializeLockTrieShared ==
    /\ server_state = "initializing"
    /\ Holds(locks.workspace_folders, Initializer)
    /\ \E i \in 1..Len(workspace_folders) : IsWorkspaceDir(workspace_folders[i])
    /\ locks' = [locks EXCEPT !.target_trie = Acquire(@, Initializer, "read")]
    /\ server_state' = "indexing"
    /\ UNCHANGED <<target_trie, inserted, prefix, result, missed, panicked, op,
                   line_up_to_cursor, trigger_result, build_files, workspace_folders,
                   documents, request, response, formatVars, extractVars, lensVars, tasks,
                   committed>>

\* initialize, at self.target_trie.write().await for a folder that is a
\* workspace directory
InitializeLockTrie ==
    /\ server_state = "initializing"
    /\ Holds(locks.workspace_folders, Initializer)
    /\ \E i \in 1..Len(workspace_folders) : IsWorkspaceDir(workspace_folders[i])
    /\ locks' = [locks EXCEPT !.target_trie = Acquire(@, Initializer, "write")]
    /\ server_state' = "indexing"
    /\ UNCHANGED <<target_trie, inserted, prefix, result, missed, panicked, op,
                   line_up_to_cursor, trigger_result, build_files, workspace_folders,
                   documents, request, response, formatVars, extractVars, lensVars, tasks,
                   committed>>

\* initialize, from there to its return: the build files of the folders are
\* indexed under the write lock of the trie, and the guards are dropped
InitializeReturn ==
    /\ ~panicked
    /\ \/ /\ server_state = "indexing"
          /\ Holds(locks.target_trie, Initializer)
       \/ /\ server_state = "initializing"
          /\ \A i \in 1..Len(workspace_folders) : ~IsWorkspaceDir(workspace_folders[i])
    /\ \E order \in Orders :
           LET st == IndexFolders([trie |-> target_trie, inserted |-> inserted,
                                   panic |-> FALSE],
                                  workspace_folders, order, build_files)
           IN  /\ target_trie' = st.trie
               /\ inserted' = st.inserted
               /\ panicked' = st.panic
               /\ server_state' = IF st.panic THEN server_state ELSE "initialized"
    /\ locks' = ReleaseAll(locks, Initializer)
    /\ UNCHANGED <<prefix, result, missed, op, line_up_to_cursor, trigger_result,
                   build_files, workspace_folders, documents, request, response,
                   formatVars, extractVars, lensVars, tasks, committed>>

\* the handler returns: its guards are dropped
Return(t) ==
    /\ tasks' = [tasks EXCEPT ![t] = Idle]
    /\ locks' = ReleaseAll(locks, t)

\* the handler panics: nothing catches the panic, the server is gone
Panic ==
    /\ panicked' = TRUE
    /\ UNCHANGED <<tasks, locks>>

\* did_open(params), up to let mut documents = self.documents.write().await
StartDidOpen(t) ==
    /\ Serving
    /\ ~Busy(t)
    /\ ~documents[SessionDocument].open
    /\ \A u \in Tasks : tasks[u].kind # "did_open"
    /\ tasks' = [tasks EXCEPT ![t] = Task("did_open", "documents", OpenedText, <<>>,
                                          Position(0, 0))]
    /\ locks' = [locks EXCEPT !.documents = Acquire(@, t, "write")]
    /\ UNCHANGED <<documents, committed, panicked>>
    /\ SessionFrame

\* did_open, from documents.insert(uri, text) to the end of
\* publish_diagnostics, under the write lock of the documents
DidOpenInsert(t) ==
    /\ Serving
    /\ At(t, "did_open", "documents")
    /\ Holds(locks.documents, t)
    /\ documents' = [documents EXCEPT ![SessionDocument] =
                         [open |-> TRUE, text |-> tasks[t].text]]
    /\ committed' = committed \cup {tasks[t].text}
    /\ \E parse_ok \in BOOLEAN :
           tasks' = [tasks EXCEPT ![t].pc = "publish_diagnostics",
                                  ![t].parsed = Append(@, parse_ok),
                                  ![t].published = @ \o PublishDiagnostics(SessionDocument,
                                                                           parse_ok)]
    /\ UNCHANGED <<locks, panicked>>
    /\ SessionFrame

\* did_open returns
DidOpenReturn(t) ==
    /\ Serving
    /\ At(t, "did_open", "publish_diagnostics")
    /\ Return(t)
    /\ UNCHANGED <<documents, committed, panicked>>
    /\ SessionFrame

\* did_change(params), up to let mut documents = self.documents.write().await
\* of update_document_content; the editor sends the changes of one edit after
\* the other
StartDidChange(t) ==
    /\ Serving
    /\ ~Busy(t)
    /\ documents[SessionDocument].open
    /\ \A u \in Tasks : ~At(u, "did_change", "update_document_content")
    /\ \E content_changes \in ContentChangesOf(documents[SessionDocument].text) :
           tasks' = [tasks EXCEPT ![t] = Task("did_change", "update_document_content", <<>>,
                                              content_changes, Position(0, 0))]
    /\ locks' = [locks EXCEPT !.documents = Acquire(@, t, "write")]
    /\ UNCHANGED <<documents, committed, panicked>>
    /\ SessionFrame

\* did_change, from there to let documents = self.documents.read().await:
\* update_document_content applies the changes and stores the text under the
\* write lock, and drops its guard
DidChangeUpdate(t) ==
    /\ Serving
    /\ At(t, "did_change", "update_document_content")
    /\ Holds(locks.documents, t)
    /\ LET current_text == documents[SessionDocument].text
           new == UpdatedTexts[current_text][tasks[t].content_changes]
       IN  IF new.panic
           THEN Panic /\ UNCHANGED <<documents, committed>>
           ELSE /\ documents' = [documents EXCEPT ![SessionDocument].text = new.text]
                /\ committed' = committed \cup {new.text}
                /\ tasks' = [tasks EXCEPT ![t].pc = "documents"]
                /\ locks' = [locks EXCEPT !.documents =
                                 Acquire(ReleaseLock(@, t), t, "read")]
                /\ UNCHANGED panicked
    /\ SessionFrame

\* did_change, from there to the first request to the client:
\* publish_diagnostics, then send_request::<SemanticTokensRefresh>
DidChangePublish(t) ==
    /\ Serving
    /\ At(t, "did_change", "documents")
    /\ Holds(locks.documents, t)
    /\ \E parse_ok \in BOOLEAN :
           tasks' = [tasks EXCEPT ![t].pc = "semantic_tokens_refresh",
                                  ![t].text = documents[SessionDocument].text,
                                  ![t].parsed = Append(@, parse_ok),
                                  ![t].published = @ \o PublishDiagnostics(SessionDocument,
                                                                           parse_ok)]
    /\ UNCHANGED <<documents, committed, locks, panicked>>
    /\ SessionFrame

\* the client answers the request the task waits for: did_change goes on to
\* send_request::<CodeLensRefresh>, and returns after the answer to that
ClientResponds(t) ==
    /\ Serving
    /\ \/ /\ At(t, "did_change", "semantic_tokens_refresh")
          /\ tasks' = [tasks EXCEPT ![t].pc = "code_lens_refresh"]
          /\ UNCHANGED locks
       \/ /\ At(t, "did_change", "code_lens_refresh")
          /\ Return(t)
    /\ UNCHANGED <<documents, committed, panicked>>
    /\ SessionFrame

\* completion(params), up to let documents = self.documents.read().await
StartCompletion(t) ==
    /\ Serving
    /\ ~Busy(t)
    /\ \E position \in SessionCursors :
           tasks' = [tasks EXCEPT ![t] = Task("completion", "documents", <<>>, <<>>,
                                              position)]
    /\ locks' = [locks EXCEPT !.documents = Acquire(@, t, "read")]
    /\ UNCHANGED <<documents, committed, panicked>>
    /\ SessionFrame

\* completion, from there to let folders = self.workspace_folders.read().await
CompletionRead(t) ==
    /\ Serving
    /\ At(t, "completion", "documents")
    /\ Holds(locks.documents, t)
    /\ LET text == documents[SessionDocument].text
       IN  \E in_deps \in BOOLEAN :
               /\ in_deps => MayBeInDepsAttribute(text, tasks[t].position)
               /\ IF ~in_deps
                  THEN Return(t)
                  ELSE /\ tasks' = [tasks EXCEPT ![t].pc = "workspace_folders",
                                                 ![t].text = text]
                       /\ locks' = [locks EXCEPT !.workspace_folders = Acquire(@, t, "read")]
    /\ UNCHANGED <<documents, committed, panicked>>
    /\ SessionFrame

\* completion, from there to self.target_trie.read().await of
\* completion_in_workspace, or to its return
CompletionTrigger(t) ==
    /\ Serving
    /\ At(t, "completion", "workspace_folders")
    /\ Holds(locks.workspace_folders, t)
    /\ LET cut == TriggerAt[tasks[t].text][tasks[t].position]
       IN  IF cut.panic THEN Panic
           ELSE IF cut.trigger = None \/ ~IsInWorkspace(SessionDocument, workspace_folders)
           THEN Return(t) /\ UNCHANGED panicked
           ELSE /\ tasks' = [tasks EXCEPT ![t].pc = "target_trie"]
                /\ locks' = [locks EXCEPT !.target_trie = Acquire(@, t, "read")]
                /\ UNCHANGED panicked
    /\ UNCHANGED <<documents, committed>>
    /\ SessionFrame

\* completion_in_workspace, from there to its return
CompletionSearch(t) ==
    /\ Serving
    /\ At(t, "completion", "target_trie")
    /\ Holds(locks.target_trie, t)
    /\ LET cut == TriggerAt[tasks[t].text][tasks[t].position]
       IN  IF CompletionInWorkspace(target_trie, tasks[t].position, cut.trigger).panic
           THEN Panic
           ELSE Return(t) /\ UNCHANGED panicked
    /\ UNCHANGED <<documents, committed>>
    /\ SessionFrame

\* code_lens(params), up to let documents = self.documents.read().await
StartCodeLens(t) ==
    /\ Serving
    /\ ~Busy(t)
    /\ tasks' = [tasks EXCEPT ![t] = Task("code_lens", "documents", <<>>, <<>>,
                                          Position(0, 0))]
    /\ locks' = [locks EXCEPT !.documents = Acquire(@, t, "read")]
    /\ UNCHANGED <<documents, committed, panicked>>
    /\ SessionFrame

\* code_lens, from there to let workspace_folders =
\* self.workspace_folders.read().await
CodeLensRead(t) ==
    /\ Serving
    /\ At(t, "code_lens", "documents")
    /\ Holds(locks.documents, t)
    /\ tasks' = [tasks EXCEPT ![t].pc = "workspace_folders",
                              ![t].text = documents[SessionDocument].text]
    /\ locks' = [locks EXCEPT !.workspace_folders = Acquire(@, t, "read")]
    /\ UNCHANGED <<documents, committed, panicked>>
    /\ SessionFrame

\* code_lens, from there to its return
CodeLensReturn(t) ==
    /\ Serving
    /\ At(t, "code_lens", "workspace_folders")
    /\ Holds(locks.workspace_folders, t)
    /\ Return(t)
    /\ UNCHANGED <<documents, committed, panicked>>
    /\ SessionFrame

\* formatting(params) and semantic_tokens_full(params), up to let documents =
\* self.documents.read().await
StartReader(t) ==
    /\ Serving
    /\ ~Busy(t)
    /\ \E kind \in {"formatting", "semantic_tokens_full"} :
           tasks' = [tasks EXCEPT ![t] = Task(kind, "documents", <<>>, <<>>,
                                              Position(0, 0))]
    /\ locks' = [locks EXCEPT !.documents = Acquire(@, t, "read")]
    /\ UNCHANGED <<documents, committed, panicked>>
    /\ SessionFrame

\* formatting, from there to its return; sort_deps_in_text may panic
FormattingReturn(t) ==
    /\ Serving
    /\ At(t, "formatting", "documents")
    /\ Holds(locks.documents, t)
    /\ IF FormattedTexts[documents[SessionDocument].text].panic
       THEN Panic
       ELSE Return(t) /\ UNCHANGED panicked
    /\ UNCHANGED <<documents, committed>>
    /\ SessionFrame

\* semantic_tokens_full, from there to its return
SemanticTokensReturn(t) ==
    /\ Serving
    /\ At(t, "semantic_tokens_full", "documents")
    /\ Holds(locks.documents, t)
    /\ Return(t)
    /\ UNCHANGED <<documents, committed, panicked>>
    /\ SessionFrame

\* execute_command(params) with a bazel command, up to let workspace_folders =
\* self.workspace_folders.read().await of execute_bazel_command
StartExecuteCommand(t) ==
    /\ Serving
    /\ ~Busy(t)
    /\ tasks' = [tasks EXCEPT ![t] = Task("execute_command", "workspace_folders", <<>>, <<>>,
                                          Position(0, 0))]
    /\ locks' = [locks EXCEPT !.workspace_folders = Acquire(@, t, "read")]
    /\ UNCHANGED <<documents, committed, panicked>>
    /\ SessionFrame

\* execute_bazel_command, from there to the wait for the process, or to its
\* return when cmd.spawn() fails
ExecuteSpawn(t) ==
    /\ Serving
    /\ At(t, "execute_command", "workspace_folders")
    /\ Holds(locks.workspace_folders, t)
    /\ \E spawned \in BOOLEAN :
           IF spawned
           THEN tasks' = [tasks EXCEPT ![t].pc = "child"] /\ UNCHANGED locks
           ELSE Return(t)
    /\ UNCHANGED <<documents, committed, panicked>>
    /\ SessionFrame

\* the bazel process exits, and execute_bazel_command returns
ProcessExits(t) ==
    /\ Serving
    /\ At(t, "execute_command", "child")
    /\ Return(t)
    /\ UNCHANGED <<documents, committed, panicked>>
    /\ SessionFrame

\* the steps of a handler after its first
Continue(t) ==
    \/ DidOpenInsert(t)
    \/ DidOpenReturn(t)
    \/ DidChangeUpdate(t)
    \/ DidChangePublish(t)
    \/ CompletionRead(t)
    \/ CompletionTrigger(t)
    \/ CompletionSearch(t)
    \/ CodeLensRead(t)
    \/ CodeLensReturn(t)
    \/ FormattingReturn(t)
    \/ SemanticTokensReturn(t)
    \/ ExecuteSpawn(t)

\* a request or a notification of the client arrives
Start(t) ==
    \/ StartDidOpen(t)
    \/ StartDidChange(t)
    \/ StartCompletion(t)
    \/ StartCodeLens(t)
    \/ StartReader(t)
    \/ StartExecuteCommand(t)

NextSession ==
    \/ InitializeStart
    \/ InitializeLockTrie
    \/ InitializeReturn
    \/ \E t \in Tasks : Start(t)
    \/ \E t \in Tasks : Continue(t)
    \/ \E t \in Tasks : ClientResponds(t)
    \/ \E t \in Tasks : ProcessExits(t)

SpecSession == InitSession /\ [][NextSession]_vars

\* the runtime polls every handler that can go on, the client answers the
\* requests of the server, and the bazel process exits
SpecSessionFair ==
    /\ SpecSession
    /\ \A t \in Tasks : WF_vars(Continue(t))
    /\ \A t \in Tasks : WF_vars(ClientResponds(t))
    /\ \A t \in Tasks : WF_vars(ProcessExits(t))

----------------------------------------------------------------------------
(* Properties of the trie. *)

\* how often rule occurs in the groups that hits references
RuleCount(t, hits, rule) ==
    Cardinality(UNION {{<<n, j>> : j \in {j \in 1..Len(t[n].rules) : t[n].rules[j] = rule}} : n \in hits})

\* how often rule was inserted
InsertCount(rule) == Cardinality({i \in 1..Len(inserted) : inserted[i].rule = rule})

AllRules == {RuleInfo(name) : name \in RuleNames}

\* C1: once (p, r) was inserted, and whatever was inserted afterwards,
\* starts_with(p) returns a group that contains r.
TrieRoundTrip ==
    op = "starts_with" =>
        \A i \in 1..Len(inserted) :
            inserted[i].path = prefix =>
                \E n \in result : \E j \in 1..Len(target_trie[n].rules) :
                    target_trie[n].rules[j] = inserted[i].rule

\* C2: when starts_with(p) is not empty, starts_with(p') is not empty for every
\* string prefix p' of p, and holds every rule at least as often.
PrefixMonotonicity ==
    (op = "starts_with" /\ result # {}) =>
        \A k \in 0..Len(prefix) :
            LET shorter == StartsWith(target_trie, SubSeq(prefix, 1, k))
            IN  /\ ~shorter.panic
                /\ shorter.hits # {}
                /\ \A rule \in AllRules :
                       RuleCount(target_trie, shorter.hits, rule)
                           >= RuleCount(target_trie, result, rule)

\* a search whose prefix ends in a ':' returned something, and a shorter prefix
\* returns strictly more
PrefixMonotonicityWitness ==
    /\ op = "starts_with"
    /\ result # {}
    /\ Len(prefix) >= 2
    /\ prefix[Len(prefix)] = ":"
    /\ \E k \in 0..(Len(prefix) - 1) :
           StartsWith(target_trie, SubSeq(prefix, 1, k)).hits # result

RECURSIVE Positions(_, _, _)
Positions(s, c, i) ==
    IF i > Len(s) THEN <<>>
    ELSE (IF s[i] = c THEN <<i>> ELSE <<>>) \o Positions(s, c, i + 1)

\* C6 as stated: insert_target splits at the last ':' (package path before it,
\* rule name after it; no ':' means empty package path and the whole string as
\* rule name).
SplitAtLastColon ==
    \A i \in 1..Len(inserted) :
        LET path == inserted[i].path
            colons == Positions(path, ":", 1)
        IN  IF colons = <<>>
            THEN inserted[i].package_path = <<>> /\ inserted[i].rule_name = path
            ELSE LET last == colons[Len(colons)]
                 IN  /\ inserted[i].package_path = SubSeq(path, 1, last - 1)
                     /\ inserted[i].rule_name = SubSeq(path, last + 1, Len(path))

\* C6 amended: insert_target splits at the first ':': the package path is the
\* text before the first ':' and the rule name is the text between the first
\* and the second ':' (to the end when there is one ':' only); the second ':'
\* and everything after it are discarded, so the terminal node is the one the
\* path cut before its second ':' ends at.
SplitAtFirstColon ==
    \A i \in 1..Len(inserted) :
        LET path == inserted[i].path
            colons == Positions(path, ":", 1)
            cut == IF Len(colons) >= 2 THEN SubSeq(path, 1, colons[2] - 1) ELSE path
        IN  /\ IF colons = <<>>
               THEN inserted[i].package_path = <<>> /\ inserted[i].rule_name = path
               ELSE /\ inserted[i].package_path = SubSeq(path, 1, colons[1] - 1)
                    /\ inserted[i].rule_name = SubSeq(cut, colons[1] + 1, Len(cut))
            /\ inserted[i].node = InsertTarget(TargetTrieNew, cut, inserted[i].rule).node

\* a path with two ':' and text after the second was inserted
SplitAtFirstColonWitness ==
    \E i \in 1..Len(inserted) :
        LET colons == Positions(inserted[i].path, ":", 1)
        IN  Len(colons) >= 2 /\ colons[2] < Len(inserted[i].path)

\* C7: insert_target and starts_with never panic, and starts_with returns
\* nothing when the trie is empty or a character of the prefix has no child.
TrieOperationsTotal ==
    /\ ~panicked
    /\ (op = "starts_with" /\ missed) => result = {}
    /\ (op = "starts_with" /\ inserted = <<>>) => result = {}

\* after the insertion of a path with several ':', a search for a prefix with
\* several ':' missed a child and returned
TrieOperationsTotalWitness ==
    /\ op = "starts_with"
    /\ missed
    /\ Len(Positions(prefix, ":", 1)) >= 2
    /\ \E i \in 1..Len(inserted) : Len(Positions(inserted[i].path, ":", 1)) >= 2

\* the rules inserted at node, in insertion order
RECURSIVE InsertedAt(_, _)
InsertedAt(h, node) ==
    IF h = <<>> THEN <<>>
    ELSE (IF Head(h).node = node THEN <<Head(h).rule>> ELSE <<>>) \o InsertedAt(Tail(h), node)

\* C8: the group of every node holds exactly the rules inserted at that node,
\* in insertion order, duplicates included, and is non-empty exactly when the
\* node is marked is_end.
GroupsKeepEveryInsertion ==
    \A node \in DOMAIN target_trie :
        /\ target_trie[node].rules = InsertedAt(inserted, node)
        /\ target_trie[node].is_end <=> target_trie[node].rules # <<>>

\* a node holds two different rules, inserted one after the other, while
\* another node holds a group of its own
GroupsKeepEveryInsertionWitness ==
    \E node, other \in DOMAIN target_trie :
        /\ node # other
        /\ Len(target_trie[node].rules) >= 2
        /\ target_trie[node].rules[1] # target_trie[node].rules[2]
        /\ target_trie[other].rules # <<>>

----------------------------------------------------------------------------
(* Properties of the trie filled with labels. *)

\* the rules in the groups that hits references
ReturnedRules(t, hits) == UNION {{t[n].rules[j] : j \in 1..Len(t[n].rules)} : n \in hits}

InsertedPaths == {inserted[i].path : i \in 1..Len(inserted)}

\* C4: with exactly the five targets of setup_server indexed, completing `a:`
\* yields exactly //a:inside_a and //a:inside_b.
ColonPrefixReturnsPackageOnly ==
    (/\ op = "starts_with"
     /\ prefix = <<"a", ":">>
     /\ InsertedPaths = {l.path : l \in SetupTargets}) =>
        ReturnedRules(target_trie, result)
            = {RuleInfoNew("inside_a", "//a:inside_a"), RuleInfoNew("inside_b", "//a:inside_b")}

\* the package of the label a path was inserted for
PackageOf(path) == (CHOOSE l \in Labels : l.path = path).package

\* C5: every rule that starts_with("a/b") returns was inserted under a package
\* path that starts with a/b.
PackagePrefixReturnsPackageOnly ==
    (op = "starts_with" /\ prefix = <<"a", "/", "b">>) =>
        \A i \in 1..Len(inserted) :
            inserted[i].node \in result => IsPrefixOf(prefix, PackageOf(inserted[i].path))

----------------------------------------------------------------------------
(* Properties of find_trigger_position. *)

StartsWithStr(s, p) == IsPrefixOf(p, s)

\* C9: find_trigger_position looks at the text after the nearest quote before
\* the cursor: DoubleSlash when it starts with `//`, Colon when it starts with
\* `:`, with trigger_pos the index just after the quote and text_after_trigger
\* the text after the trigger; no trigger when there is no quote or the text
\* after it starts with anything else.
TriggerDetection ==
    trigger_result # Pending =>
        LET line == line_up_to_cursor
            quotes == {i \in 1..Len(line) : line[i] = Quote}
        IN  IF quotes = {} THEN trigger_result = None
            ELSE LET q == CHOOSE i \in quotes : \A j \in quotes : j <= i
                     after == SubSeq(line, q + 1, Len(line))
                 IN  IF StartsWithStr(after, <<"/", "/">>)
                     THEN /\ trigger_result.tag = "some"
                          /\ trigger_result.trigger_type = "DoubleSlash"
                          /\ trigger_result.trigger_pos = q
                          /\ <<"/", "/">> \o trigger_result.text_after_trigger = after
                     ELSE IF StartsWithStr(after, <<":">>)
                     THEN /\ trigger_result.tag = "some"
                          /\ trigger_result.trigger_type = "Colon"
                          /\ trigger_result.trigger_pos = q
                          /\ <<":">> \o trigger_result.text_after_trigger = after
                     ELSE trigger_result = None

\* a line with two quotes gave a `//` trigger measured from the second quote,
\* with text after the trigger
TriggerDetectionWitness ==
    /\ trigger_result # Pending
    /\ trigger_result.tag = "some"
    /\ trigger_result.trigger_type = "DoubleSlash"
    /\ trigger_result.trigger_pos = 2
    /\ line_up_to_cursor[1] = Quote
    /\ trigger_result.text_after_trigger # <<>>

\* the 1-based position of the quote that opens the string literal still open
\* at the end of line, 0 when the line ends outside of a literal: a quote opens
\* a literal, the next quote not preceded by a backslash escape closes it
RECURSIVE OpenLiteral(_, _, _)
OpenLiteral(line, i, open) ==
    IF i > Len(line) THEN open
    ELSE IF open = 0
         THEN OpenLiteral(line, i + 1, IF line[i] = Quote THEN i ELSE 0)
    ELSE IF line[i] = Backslash THEN OpenLiteral(line, i + 2, open)
    ELSE IF line[i] = Quote THEN OpenLiteral(line, i + 1, 0)
    ELSE OpenLiteral(line, i + 1, open)

\* C10: a trigger is reported only when the cursor is inside a string literal,
\* and it is measured from the opening quote of that literal.
TriggerOnlyInsideLiteral ==
    (trigger_result # Pending /\ trigger_result.tag = "some") =>
        LET open == OpenLiteral(line_up_to_cursor, 1, 0)
        IN  open # 0 /\ trigger_result.trigger_pos = open

----------------------------------------------------------------------------
(* Properties of the completion handler. *)

\* a completion request was answered with a list
AnsweredWithArray == request # Pending /\ response # Pending /\ response.tag = "array"

\* C11: in workspace mode every candidate replaces the text from trigger_pos
\* to the cursor, by the rule's fully qualified path when the trigger is `//`
\* and by `:` and the rule's name when the trigger is `:`.
EditTextFollowsTrigger ==
    (AnsweredWithArray /\ IsInWorkspace(request.path, workspace_folders)) =>
        response.items =
            { CompletionItem(rule.full_build_path,
                             [tag |-> "some",
                              range |-> [start |-> [line |-> request.position.line,
                                                    character |-> trigger_result.trigger_pos],
                                         end |-> request.position],
                              new_text |-> IF trigger_result.trigger_type = "DoubleSlash"
                                           THEN rule.full_build_path
                                           ELSE <<":">> \o rule.name])
              : rule \in MatchingRules(target_trie,
                                       StartsWith(target_trie,
                                                  trigger_result.text_after_trigger).hits) }

\* the names of the targets of text that start with typed
NamesStartingWith(text, typed) ==
    {ExtractTargets(text)[i] : i \in {i \in 1..Len(ExtractTargets(text))
                                      : IsPrefixOf(typed, ExtractTargets(text)[i])}}

\* a trigger was found for a document that lies in no workspace folder
TriggerInSingleFile ==
    /\ request # Pending
    /\ ~panicked
    /\ trigger_result # Pending
    /\ trigger_result.tag = "some"
    /\ ~IsInWorkspace(request.path, workspace_folders)

\* C12: for a document in no workspace folder, a `:` trigger returns exactly
\* the targets of the document's own text whose name starts with
\* text_after_trigger, whatever the trie holds, and a `//` trigger returns no
\* completion.
SingleFileCompletion ==
    TriggerInSingleFile =>
        IF trigger_result.trigger_type = "DoubleSlash"
        THEN response = None
        ELSE request.extract_ok =>
                 /\ response.tag = "array"
                 /\ {item.label : item \in response.items}
                        = NamesStartingWith(documents[request.path].text,
                                            trigger_result.text_after_trigger)

\* `:x` was completed in a document outside the workspace: the target x of the
\* document is offered, its target y is not, and neither are the rules of the
\* trie that a search for x returns
SingleFileCompletionWitness ==
    /\ TriggerInSingleFile
    /\ trigger_result.trigger_type = "Colon"
    /\ trigger_result.text_after_trigger = <<"x">>
    /\ response.tag = "array"
    /\ {item.label : item \in response.items} = {<<"x">>}
    /\ Len(ExtractTargets(documents[request.path].text)) = 2
    /\ StartsWith(target_trie, <<"x">>).hits # {}

\* C13: a completion request never crashes; it returns an absent result when
\* no trigger is found and a list when a trigger is found, for every document
\* and every cursor position.
CompletionNeverCrashes ==
    /\ ~panicked
    /\ request # Pending =>
           /\ response # Pending
           /\ trigger_result = None => response = None
           /\ (/\ trigger_result # Pending
               /\ trigger_result.tag = "some"
               /\ \/ IsInWorkspace(request.path, workspace_folders)
                  \/ trigger_result.trigger_type = "Colon" /\ request.extract_ok)
                  => response.tag = "array"

\* C14: every candidate carries a label, a detail and a text edit whose span
\* lies on the line of the cursor, starts at or before the cursor and ends at
\* the cursor.
CandidatesCarryEdit ==
    AnsweredWithArray =>
        \A item \in response.items :
            /\ item.label # <<>>
            /\ item.detail # <<>>
            /\ item.text_edit.tag = "some"
            /\ item.text_edit.range.start.line = request.position.line
            /\ item.text_edit.range.start.character <= request.position.character
            /\ item.text_edit.range.end = request.position

----------------------------------------------------------------------------
(* Properties of the indexer. *)

\* the folders of initialize that are workspace directories above file
IndexingFolders(file) ==
    {i \in 1..Len(workspace_folders) :
        IsWorkspaceDir(workspace_folders[i]) /\ IsPrefixOf(workspace_folders[i], file)}

\* the insert_target calls made for the target name of build file file
InsertionsOf(file, name) ==
    {i \in 1..Len(inserted) :
        inserted[i].rule = RuleInfoNew(name, FullBuildPath(PackagePath(file), name))}

TargetsOfFile(file) == {ExtractTargets(FileText(file))[i] : i \in 1..Len(ExtractTargets(FileText(file)))}

\* <package_path>:<name>, recovered from the label //<package_path>:<name>
KeyOfLabel(full_build_path) == SubSeq(full_build_path, 3, Len(full_build_path))

\* C19: every target of an indexed build file is inserted once, with the label
\* //<package_path>:<name>, at the node that the key <package_path>:<name>
\* leads to, and a search for any prefix of <package_path>:<name> returns it.
IndexerLabelsAndKeys ==
    /\ server_state = "initialized" =>
           \A file \in BuildFiles : \A name \in TargetsOfFile(file) :
               (build_files[file] = "ok" /\ IndexingFolders(file) # {}) =>
                   /\ Cardinality(InsertionsOf(file, name)) = Cardinality(IndexingFolders(file))
                   /\ \A i \in InsertionsOf(file, name) :
                          inserted[i].node
                              = InsertTarget(TargetTrieNew,
                                             PackagePath(file) \o <<":">> \o name,
                                             inserted[i].rule).node
    /\ op = "starts_with" =>
           \A i \in 1..Len(inserted) :
               IsPrefixOf(prefix, KeyOfLabel(inserted[i].rule.full_build_path)) =>
                   /\ ~missed
                   /\ inserted[i].node \in result

\* with the build file of the root package and the one of package a/b
\* indexed, the user typed `:x` after `//` and the search returned the target
\* x of the root package
IndexerLabelsAndKeysWitness ==
    /\ server_state = "initialized"
    /\ op = "starts_with"
    /\ prefix = <<":", "x">>
    /\ Len(inserted) = 3
    /\ \E i \in 1..Len(inserted) :
           /\ inserted[i].rule = RuleInfoNew(<<"x">>, <<"/", "/", ":", "x">>)
           /\ inserted[i].node \in result

\* C20: a build file that cannot be read or parsed contributes nothing to the
\* trie and does not stop indexing: every target of every other build file
\* below a workspace folder is inserted, and initialize returns.
IndexingFailureIsolation ==
    /\ ~panicked
    /\ server_state = "initialized" =>
           \A file \in BuildFiles : \A name \in TargetsOfFile(file) :
               IF build_files[file] = "ok"
               THEN Cardinality(InsertionsOf(file, name)) = Cardinality(IndexingFolders(file))
               ELSE \A i \in 1..Len(inserted) :
                        inserted[i].rule.full_build_path
                            # FullBuildPath(PackagePath(file), name)

\* initialize returned although the build file of the root package could not
\* be read, and the two targets of package a/b are in the trie
IndexingFailureIsolationWitness ==
    /\ server_state = "initialized"
    /\ build_files[RootBuildFile] = "unreadable"
    /\ build_files[PackageBuildFile] = "ok"
    /\ Len(inserted) = 2

\* C22: insert_target ends at the node spelled by the literal characters of
\* the package path, its `/` included, followed by the characters of the rule
\* name; so two paths whose package paths differ do not end at the same node
\* unless these spellings are equal.
LiteralKey ==
    \A i \in 1..Len(inserted) :
        inserted[i].node = inserted[i].package_path \o inserted[i].rule_name

\* C23: after initialize, every target of every readable build file below a
\* workspace folder is in the trie exactly once, however many workspace
\* folders lead to the build file.
IndexedExactlyOnce ==
    server_state = "initialized" =>
        \A file \in BuildFiles : \A name \in TargetsOfFile(file) :
            (build_files[file] = "ok" /\ IndexingFolders(file) # {}) =>
                Cardinality(InsertionsOf(file, name)) = 1

----------------------------------------------------------------------------
(* Properties of the formatter. *)

\* the last character of the line of character i, its line ending excluded
LineEnd(text, i) ==
    LET feeds == {k \in i..Len(text) : text[k] = LF}
        feed == IF feeds = {} THEN Len(text) + 1 ELSE CHOOSE k \in feeds : \A j \in feeds : k <= j
    IN  IF feed > 1 /\ feed - 1 <= Len(text) /\ text[feed - 1] = CR THEN feed - 2 ELSE feed - 1

\* The entries that a reader sees in the first deps list of the text: every
\* string literal of the list with the line it stands on and the comment that
\* ends that line (<<>>: none)
ListEntries(text) ==
    IF DepsMatches(text) = <<>> THEN <<>>
    ELSE LET m == DepsMatches(text)[1]
             tree == Parse(text)
             opening == {k \in (m.list_start + 2)..(m.end_byte - 1) :
                            /\ text[k] = Quote
                            /\ tree[k] = "string"
                            /\ QuotesBetween(text, LineStart(text, k), k - 1) % 2 = 0}
             at == Ascending(opening)
             Closing(k) == CHOOSE j \in (k + 1)..Len(text) :
                               text[j] = Quote /\ \A l \in (k + 1)..(j - 1) : text[l] # Quote
             Hash(k) == CommentStart(text, LineStart(text, k), LineEnd(text, k))
         IN  [n \in 1..Len(at) |->
                 [dep |-> SubSeq(text, at[n] + 1, Closing(at[n]) - 1),
                  row |-> PointOf(text, at[n]).line,
                  note |-> IF Hash(at[n]) = 0 THEN <<>>
                           ELSE SubSeq(text, Hash(at[n]), LineEnd(text, at[n]))]]

\* the strings of S in ascending byte-wise order
RECURSIVE SortNames(_)
SortNames(S) ==
    IF S = {} THEN <<>>
    ELSE LET least == CHOOSE d \in S : \A e \in S : StrLessEq(d, e)
         IN  <<least>> \o SortNames(S \ {least})

DepsOf(entries) == {entries[k].dep : k \in 1..Len(entries)}

\* the comment of the first occurrence of dep among the entries
FirstNote(entries, dep) ==
    entries[CHOOSE k \in 1..Len(entries) :
                entries[k].dep = dep /\ \A j \in 1..(k - 1) : entries[j].dep # dep].note

HasLineFeedsOnly(text) == ~Contains(text, CR)

\* the text without its comments
CodeOf(text) ==
    LET tree == Parse(text)
        code == Ascending({k \in 1..Len(text) : tree[k] # "comment"})
    IN  [n \in 1..Len(code) |-> text[code[n]]]

\* C15: formatter idempotence: for every text that parses, a second call of
\* sort_deps_in_text returns what the first call returned.  Stated for the
\* texts whose first result parses as the source does: the texts with line
\* feeds only, and the texts whose first result differs from the source in
\* its comments only.
FormatterIdempotence ==
    (/\ Len(formatted) >= 2
     /\ (HasLineFeedsOnly(source) \/ CodeOf(formatted[1].text) = CodeOf(source)))
        => formatted[2] = formatted[1]

\* C16: for every deps list of quoted strings, written one per line or several
\* on one line, the rewritten list holds each distinct dependency exactly
\* once, one per line, in ascending byte-wise order.  Stated for the texts
\* with line feeds only.
SortAndDedup ==
    (/\ Len(formatted) >= 1
     /\ HasLineFeedsOnly(source)
     /\ ListEntries(source) # <<>>
     /\ \A k \in 1..Len(ListEntries(source)) : ListEntries(source)[k].note = <<>>)
        => /\ ~formatted[1].panic
           /\ LET out == ListEntries(formatted[1].text)
              IN  /\ [k \in 1..Len(out) |-> out[k].dep] = SortNames(DepsOf(ListEntries(source)))
                  /\ \A j, k \in 1..Len(out) : j # k => out[j].row # out[k].row

\* C17: a trailing comment does not count for the order, and stays on its
\* entry: the rewritten list holds the distinct dependencies in ascending
\* order, each with the comment of its first occurrence in the source.
\* Stated for the texts with line feeds only whose entries stand one per line.
TrailingComments ==
    (/\ Len(formatted) >= 1
     /\ HasLineFeedsOnly(source)
     /\ ListEntries(source) # <<>>
     /\ \A j, k \in 1..Len(ListEntries(source)) :
            j # k => ListEntries(source)[j].row # ListEntries(source)[k].row)
        => /\ ~formatted[1].panic
           /\ LET in == ListEntries(source)
                  out == ListEntries(formatted[1].text)
                  names == SortNames(DepsOf(in))
              IN  /\ Len(out) = Len(names)
                  /\ \A k \in 1..Len(out) :
                         /\ out[k].dep = names[k]
                         /\ out[k].note = FirstNote(in, names[k])

\* the text of the n-th deps argument of the text
DepsArgText(text, n) ==
    SubSeq(text, DepsMatches(text)[n].start_byte + 1, DepsMatches(text)[n].end_byte)

\* C18: a text without deps attribute, or whose only deps attribute is
\* `deps = []`, comes back byte-identical.
EmptyDepsUntouched ==
    (/\ Len(formatted) >= 1
     /\ \/ DepsMatches(source) = <<>>
        \/ (Len(DepsMatches(source)) = 1 /\ DepsArgText(source, 1) = EmptyDeps))
        => formatted[1] = [panic |-> FALSE, text |-> source]

\* C29: the formatter preserves the dependency set: the strings of the
\* rewritten deps list are the strings of the original list, none dropped and
\* none added.  Stated for the texts with line feeds only.
DependencySetPreserved ==
    (/\ Len(formatted) >= 1
     /\ HasLineFeedsOnly(source)
     /\ ListEntries(source) # <<>>)
        => /\ ~formatted[1].panic
           /\ DepsOf(ListEntries(formatted[1].text)) = DepsOf(ListEntries(source))

\* the bytes of the text that lie in none of its deps arguments
OutsideDeps(text) ==
    LET matches == DepsMatches(text)
        outside == Ascending({k \in 1..Len(text) :
                                 \A n \in 1..Len(matches) :
                                     k <= matches[n].start_byte \/ k > matches[n].end_byte})
    IN  [n \in 1..Len(outside) |-> text[outside[n]]]

\* the replacement ranges (start, end) that sort_deps_in_text computes for the
\* text, in the order of the text
ReplacementRanges(text) ==
    [n \in 1..Len(DepsMatches(text)) |->
        [start |-> ChangeOf(text, DepsMatches(text)[n]).start,
         end |-> ChangeOf(text, DepsMatches(text)[n]).end]]

\* C24: the replacement ranges of the deps attributes of a text do not
\* overlap, and the text outside the deps attributes comes back
\* byte-identical.  Stated for the texts with line feeds only.
FormatterFrame ==
    (Len(formatted) >= 1 /\ HasLineFeedsOnly(source))
        => /\ \A j, k \in 1..Len(ReplacementRanges(source)) :
                  j < k => ReplacementRanges(source)[j].end <= ReplacementRanges(source)[k].start
           /\ ~formatted[1].panic
           /\ OutsideDeps(formatted[1].text) = OutsideDeps(source)

----------------------------------------------------------------------------
(* Properties of target extraction. *)

\* the keyword arguments of the call that are named name
NameAttributes(call) ==
    {a \in 1..Len(call.arguments) : call.arguments[a].name = "name"}

\* the first of them
FirstNameAttribute(call) ==
    call.arguments[CHOOSE a \in NameAttributes(call) : \A b \in NameAttributes(call) : a <= b]

\* the targets that extract_targets returned for the call number c
TargetsOfCall(c) ==
    {k \in 1..Len(extracted.targets) : extracted.targets[k].rule_call = c}

\* C28: extract_targets yields at most one target per call; a call without
\* name attribute yields none, whatever its other attributes are; a call whose
\* first name attribute is a string yields the target named by that string.
TargetNamedByNameAttribute ==
    extracted # Pending =>
        \A c \in 1..Len(rule_calls) :
            /\ Cardinality(TargetsOfCall(c)) <= 1
            /\ NameAttributes(rule_calls[c]) = {} => TargetsOfCall(c) = {}
            /\ (/\ NameAttributes(rule_calls[c]) # {}
                /\ FirstNameAttribute(rule_calls[c]).value.kind = "string")
                   => \E k \in TargetsOfCall(c) :
                          Str(extracted.targets[k].name)
                              = FirstNameAttribute(rule_calls[c]).value.text

----------------------------------------------------------------------------
(* Properties of the code lenses. *)

\* the lenses of the response whose command is not bazel.build, and the others
IsBuildLens(lens) == lens.command = "bazel.build"

\* the target that the lens stands on, among the targets of the document
TargetAt(found, range) == found[CHOOSE k \in 1..Len(found) : found[k].rule_type_range = range]

\* C27: the response of code_lens holds, for every target of the document in
\* extraction order, one bazel.build lens, directly preceded by one bazel.test
\* lens iff the rule type ends in _test, or by one bazel.run lens iff it ends
\* in _binary, and nothing else; every lens carries the label
\* //<package_path>:<name> of its target, the package path being relative to
\* the workspace root of the document when that root is a workspace folder;
\* when extraction fails the response is the empty list.
CodeLensCommands ==
    lenses # Pending =>
        LET found == ExtractTargetsWithRuleType(documents[lenses.uri].text)
            out == lenses.lenses
            builds == SelectSeq(out, IsBuildLens)
            root == FindWorkspaceRoot(lenses.uri)
        IN  IF ~lenses.extract_ok THEN out = <<>>
            ELSE /\ [k \in 1..Len(builds) |-> builds[k].range]
                        = [k \in 1..Len(found) |-> found[k].rule_type_range]
                 /\ \A i \in 1..Len(out) :
                        LET target == TargetAt(found, out[i].range)
                            before == IF i > 1 /\ ~IsBuildLens(out[i - 1])
                                      THEN out[i - 1].command ELSE "none"
                        IN  /\ IsBuildLens(out[i]) =>
                                   /\ before = "bazel.test"
                                          <=> EndsWith(target.rule_type, TestSuffix)
                                   /\ before = "bazel.run"
                                          <=> EndsWith(target.rule_type, BinarySuffix)
                            /\ ~IsBuildLens(out[i]) =>
                                   /\ out[i].command \in {"bazel.test", "bazel.run"}
                                   /\ i < Len(out)
                                   /\ IsBuildLens(out[i + 1])
                                   /\ out[i + 1].range = out[i].range
                            /\ (root.tag = "none"
                                \/ \E f \in 1..Len(workspace_folders) :
                                       workspace_folders[f] = root.dir)
                                   => out[i].target
                                          = FullBuildPath(PackagePath(lenses.uri), target.name)

----------------------------------------------------------------------------
(* Properties of the session. *)

\* a lock is held by one writer, or by readers, and nobody who holds it waits
\* for it
LocksWellFormed ==
    \A l \in DOMAIN locks :
        /\ locks[l].mode = "write" => Cardinality(locks[l].holders) = 1
        /\ locks[l].mode = "free" <=> locks[l].holders = {}

\* the task waits for a lock
Blocked(t) == \E l \in DOMAIN locks : Queued(locks[l], t)

\* no handler in flight can go on
NoDeadlock == (\E t \in Tasks : Busy(t)) => \E t \in Tasks : Busy(t) /\ ~Blocked(t)

\* whoever waits for a lock holds only locks that come before it
LockOrder ==
    \A t \in Tasks \cup {Initializer} : \A l, h \in DOMAIN locks :
        (Queued(locks[l], t) /\ Holds(locks[h], t)) => LockRank[h] < LockRank[l]

\* t waits for a lock that u holds, or that u waits for ahead of it
WaitsFor(t, u) ==
    \E l \in DOMAIN locks :
        /\ Queued(locks[l], t)
        /\ Holds(locks[l], u)
           \/ \E i, j \in 1..Len(locks[l].queue) :
                  i < j /\ locks[l].queue[i].task = u /\ locks[l].queue[j].task = t

\* no two handlers wait for each other
NoCircularWait ==
    \A t, u \in Tasks \cup {Initializer} : ~(t # u /\ WaitsFor(t, u) /\ WaitsFor(u, t))

SessionSafe == LocksWellFormed /\ NoDeadlock /\ LockOrder /\ NoCircularWait

\* C30: the handlers take the locks in the order documents, workspace_folders,
\* target_trie, so no two handlers ever wait for each other, and every request
\* that has arrived is answered, the bazel process of an execute_command
\* having exited
DeadlockFreedom ==
    /\ [](LockOrder /\ NoCircularWait /\ NoDeadlock)
    /\ \A t \in Tasks : Busy(t) ~> ~Busy(t)

\* a step writes the trie
TrieWritten == target_trie' # target_trie \/ inserted' # inserted

\* C26: the trie is written only by initialize, under its write lock: no step
\* of did_open, did_change, completion, formatting, code_lens, semantic
\* tokens or execute_command changes it, and from the return of initialize on
\* it stays what it is, whatever the edits of the document and the
\* interleaving of the requests
TrieWrittenOnlyByInitialize ==
    [][/\ TrieWritten => /\ locks.target_trie.mode = "write"
                         /\ Holds(locks.target_trie, Initializer)
                         /\ \A t \in Tasks : ~Busy(t)
       /\ server_state = "initialized" => ~TrieWritten]_vars

\* the document has been edited after initialize has indexed the targets, a
\* did_change is in flight and a completion stands at the search in the trie
TrieWrittenOnlyByInitializeWitness ==
    /\ server_state = "initialized"
    /\ inserted # <<>>
    /\ documents[SessionDocument].open
    /\ documents[SessionDocument].text = EditedText
    /\ \E t, u \in Tasks :
           /\ At(t, "completion", "target_trie")
           /\ Holds(locks.target_trie, t)
           /\ tasks[u].kind = "did_change"

\* the text after the first n of the changes, each applied to the result of
\* the one before
RECURSIVE AppliedInOrder(_, _, _)
AppliedInOrder(text, content_changes, n) ==
    IF n = 0 THEN text
    ELSE ApplyChange([panic |-> FALSE, text |-> AppliedInOrder(text, content_changes, n - 1)],
                     content_changes[n]).text

\* the texts between the changes of one did_change
IntermediateTexts(text, content_changes) ==
    { AppliedInOrder(text, content_changes, n) : n \in 1..(Len(content_changes) - 1) }
        \ { text, AppliedInOrder(text, content_changes, Len(content_changes)) }

\* the text between the two key strokes of `//`
TextBetweenKeyStrokes == DocumentText(<<Quote, "/", Quote, ",">>)

\* the handlers that read the text of the document into a local
DocumentReaders == {"completion", "code_lens", "did_change"}

\* C25: the document store is changed only under its write lock; a did_change
\* replaces the text by the result of all its content changes, applied in
\* order and each to the result of the one before, in one step under one
\* write acquisition; and what a concurrent completion, code_lens, formatting,
\* semantic_tokens_full or did_change reads, under the read lock, is the text
\* before an edit or after all its changes, never a text between two changes
DocumentStoreAtomicity ==
    [][/\ documents' # documents =>
              \E t \in Tasks :
                  /\ locks.documents.mode = "write"
                  /\ Holds(locks.documents, t)
                  /\ \/ /\ tasks[t].kind = "did_open"
                        /\ documents'[SessionDocument] = [open |-> TRUE, text |-> tasks[t].text]
                     \/ /\ tasks[t].kind = "did_change"
                        /\ documents'[SessionDocument] =
                               [open |-> TRUE,
                                text |-> AppliedInOrder(documents[SessionDocument].text,
                                                        tasks[t].content_changes,
                                                        Len(tasks[t].content_changes))]
                        /\ ~Holds(locks'.documents, t) \/ locks'.documents.mode = "read"
       /\ \A t \in Tasks :
              (tasks'[t].kind \in DocumentReaders /\ tasks'[t].text # tasks[t].text) =>
                  /\ locks.documents.mode = "read"
                  /\ Holds(locks.documents, t)
                  /\ tasks'[t].text = documents[SessionDocument].text
       /\ \A t \in Tasks :
              (tasks[t].kind = "did_change" /\ tasks[t].pc = "update_document_content") =>
                  documents'[SessionDocument].text
                      \notin IntermediateTexts(documents[SessionDocument].text,
                                               tasks[t].content_changes)
       /\ TextBetweenKeyStrokes \notin committed']_vars

\* a did_change with two content changes has replaced the text, and a
\* concurrent completion or code_lens has read the text after both
DocumentStoreAtomicityWitness ==
    \E t, u \in Tasks :
        /\ tasks[t].kind = "did_change"
        /\ tasks[t].content_changes = <<TypeSlash, TypeSecondSlash>>
        /\ tasks[t].pc # "update_document_content"
        /\ IntermediateTexts(OpenedText, tasks[t].content_changes) = {TextBetweenKeyStrokes}
        /\ tasks[u].kind \in {"completion", "code_lens"}
        /\ tasks[u].text = EditedText
        /\ documents[SessionDocument].text = EditedText

\* the notification the client gets for the result of a call of
\* self.parser.parse
DiagnosticsFor(parse_ok) ==
    [uri |-> SessionDocument,
     diagnostics |-> IF parse_ok
                     THEN <<>>
                     ELSE << [range |-> [start |-> [line |-> 0, character |-> 0],
                                         end |-> [line |-> 0, character |-> 0]],
                              severity |-> "ERROR", code |-> "parse_error"] >>]

\* the handlers that report on the text of the document
Publishers == {"did_open", "did_change"}

====
